---- MODULE Spec2Model ----
(***************************************************************************)
(* Model of the GDC dashboard data-management console (src/_form.py):      *)
(* the SQLite store, setup_database (schema creation, additive column      *)
(* migration, seeding, timestamp backfill), the freshness functions and    *)
(* the repository operations and view handlers that write the store.       *)
(***************************************************************************)
EXTENDS Integers, Sequences, FiniteSets, TLC

VARIABLES
    tables,            \* tables that exist in gdc_data.db
    columns,           \* evolvable columns present, per table
    hubs,              \* rows of table hubs
    users,             \* rows of table users
    hub_metrics,       \* rows of table hub_metrics
    hub_capabilities,  \* rows of table hub_capabilities
    client_metrics,    \* rows of table client_metrics
    people_metrics,    \* rows of table people_metrics
    now,               \* the clock: value of CURRENT_TIMESTAMP / datetime.now()
    mig,               \* per script run of setup_database: position and locals
    runs,              \* column sets observed after each completed sequential run
    hist,              \* bookkeeping about the last operation (for the properties)
    ed,                \* per editing session: position and locals of its script run
    view               \* what the last rendered page shows

store_vars == <<tables, columns, hubs, users, hub_metrics, hub_capabilities,
                client_metrics, people_metrics>>

-----------------------------------------------------------------------------
(* Bounds of the model.                                                    *)

MaxHubs == 2            \* how many of the seven default hubs are seeded
NumSampleClients == 2   \* how many of the five sample clients are seeded
MaxTime == 2            \* the clock runs from 0 to MaxTime
MaxRuns == 2            \* sequential runs of setup_database
MaxMissing == 2         \* columns an older store lacks, sequential starts
MaxMissingConc == 1     \* columns an older store lacks, concurrent starts
NumCapabilities == 2    \* how many capabilities of each category are seeded
MaxEdits == 2           \* saves by editors between starts of the program
MaxAgeDays == 36        \* oldest timestamp rendered, in days
MaxLocations == 2       \* rows of the location list of the hub metrics form
MaxCertifications == 1  \* rows of the certification list of the hub metrics form

-----------------------------------------------------------------------------
(* Values.                                                                 *)

NULL == -1                          \* SQL NULL in a numeric or timestamp column
NullText == "NULL"                  \* SQL NULL in a text column
JsonNull == [kind |-> "null"]       \* SQL NULL in a column that holds JSON text
JsonList(items) == [kind |-> "list", items |-> items]

Pct(n, d) == <<n, d>>               \* the real number n/d

TableNames == {"users", "hubs", "hub_metrics", "hub_capabilities",
               "client_metrics", "people_metrics"}

\* Columns named in the CREATE TABLE statements that an older store may lack.
CreateColumns(t) ==
    CASE t = "hub_metrics"      -> {"bench_count", "location_headcounts", "certifications"}
      [] t = "hub_capabilities" -> {"headcount", "capability_updated_at"}
      [] t = "client_metrics"   -> {"capability_name", "relationship_duration"}
      [] t = "people_metrics"   -> {"people_metric_updated_at"}
      [] OTHER                  -> {}

\* Columns that setup_database adds when they are missing.
EvolvableColumns(t) ==
    CASE t = "hub_metrics"      -> {"bench_count", "location_headcounts", "certifications",
                                    "metrics_updated_at", "location_updated_at",
                                    "certifications_updated_at"}
      [] t = "hub_capabilities" -> {"capability_updated_at", "headcount"}
      [] t = "client_metrics"   -> {"employee_count", "client_updated_at",
                                    "capability_name", "relationship_duration"}
      [] t = "people_metrics"   -> {"date_created", "people_metric_updated_at"}
      [] OTHER                  -> {}

AllEvolvable == UNION {{<<t, c>> : c \in EvolvableColumns(t)} : t \in TableNames}

\* The value an existing row shows in a column added by ALTER TABLE ADD COLUMN.
ColumnDefault(c) ==
    CASE c \in {"bench_count", "headcount", "employee_count"} -> 0
      [] c \in {"location_headcounts", "certifications", "capability_name"} -> JsonNull
      [] OTHER -> NULL

all_capabilities_data == <<
    <<"Ad Operations", "MEDIA+">>, <<"Media Reporting", "MEDIA+">>, <<"SEO", "MEDIA+">>,
    <<"Media Activation", "MEDIA+">>, <<"Retail Media", "MEDIA+">>,
    <<"Paid Search", "MEDIA+">>, <<"Commerce", "MEDIA+">>, <<"Programmatic", "MEDIA+">>,
    <<"Analytics & Insights", "MEDIA+">>,
    <<"Language Services", "CONTENT+">>, <<"Post-production", "CONTENT+">>,
    <<"Transcreation", "CONTENT+">>, <<"Adaptation", "CONTENT+">>,
    <<"Content for Commerce", "CONTENT+">>,
    <<"Experience Platforms", "CX+">>, <<"Commerce Platforms", "CX+">>,
    <<"Marketing Automation", "CX+">>, <<"Engineering Services", "CX+">>,
    <<"Creative Technology", "CX+">>, <<"CRM", "CX+">>, <<"DevOps", "CX+">>,
    <<"Quality Engineering", "CX+">> >>

\* the first NumCapabilities entries of each category
capabilities_data ==
    LET pos(p) == CHOOSE i \in 1..Len(all_capabilities_data) : all_capabilities_data[i] = p
        rank(p) == Cardinality({j \in 1..pos(p) : all_capabilities_data[j][2] = p[2]})
    IN SelectSeq(all_capabilities_data, LAMBDA p : rank(p) <= NumCapabilities)

default_hubs ==
    SubSeq(<<"AKQA", "Mirum Digital Pvt Ltd", "GroupM Nexus Global Team",
                      "Hogarth Worldwide", "Hogarth Studios", "Verticurl",
                      "VML-Tech Commerce">>, 1, MaxHubs)

\* needle in hub_name, for the needles and hub names the seeding uses
NameHas(hub_name, needle) ==
    CASE needle = "AKQA"              -> hub_name = "AKQA"
      [] needle = "GroupM"            -> hub_name = "GroupM Nexus Global Team"
      [] needle = "VML-Tech Commerce" -> hub_name = "VML-Tech Commerce"
      [] needle = "Hogarth Studios"   -> hub_name = "Hogarth Studios"
      [] needle = "Hogarth Worldwide" -> hub_name = "Hogarth Worldwide"
      [] needle = "Hogarth"           -> hub_name \in {"Hogarth Worldwide", "Hogarth Studios"}
      [] needle = "Verticurl"         -> hub_name = "Verticurl"
      [] needle = "Mirum"             -> hub_name = "Mirum Digital Pvt Ltd"
      [] OTHER                        -> FALSE

primary_category(hub_name) ==
    IF NameHas(hub_name, "AKQA") \/ NameHas(hub_name, "Mirum")
       \/ NameHas(hub_name, "VML-Tech Commerce") \/ NameHas(hub_name, "Verticurl")
    THEN "CX+"
    ELSE IF NameHas(hub_name, "GroupM") THEN "MEDIA+"
    ELSE IF NameHas(hub_name, "Hogarth") THEN "CONTENT+"
    ELSE "CX+"

sample_clients == [i \in 1..NumSampleClients |->
                      CASE i = 1 -> "Client 1" [] i = 2 -> "Client 2" [] i = 3 -> "Client 3"
                        [] i = 4 -> "Client 4" [] OTHER -> "Client 5"]

people_metric_types == <<
    <<"Tenure <1 year", "Tenure", "2025", 25>>,
    <<"Tenure 1-2 years", "Tenure", "2025", 22>>,
    <<"Tenure 2-3 years", "Tenure", "2025", 18>>,
    <<"Tenure 3-5 years", "Tenure", "2025", 15>>,
    <<"Tenure 5-7 years", "Tenure", "2025", 10>>,
    <<"Tenure 7-10 years", "Tenure", "2025", 5>>,
    <<"Tenure 10+ years", "Tenure", "2025", 3>>,
    <<"Permanent Employees", "Employment Type", "2025", 75>>,
    <<"Contract Employees", "Employment Type", "2025", 25>>,
    <<"Single", "Marital Status", "2025", 55>>,
    <<"Married", "Marital Status", "2025", 40>>,
    <<"Other Marital Status", "Marital Status", "2025", 5>> >>

\* hub_name.lower().replace(" ", "_")
username_of(hub_name) ==
    CASE hub_name = "AKQA"                     -> "akqa"
      [] hub_name = "Mirum Digital Pvt Ltd"    -> "mirum_digital_pvt_ltd"
      [] hub_name = "GroupM Nexus Global Team" -> "groupm_nexus_global_team"
      [] hub_name = "Hogarth Worldwide"        -> "hogarth_worldwide"
      [] hub_name = "Hogarth Studios"          -> "hogarth_studios"
      [] hub_name = "Verticurl"                -> "verticurl"
      [] hub_name = "VML-Tech Commerce"        -> "vml-tech_commerce"
      [] OTHER                                 -> hub_name

\* hashlib.sha256(password.encode()).hexdigest(): modelled as an injective tag
sha256(password) == <<"sha256", password>>

\* the password without the suffix
default_password_no_suffix(username) == <<username>>

\* password = username + "123"
default_password(username) == <<username, "123">>

\* the literal "admin123"
admin_password == <<"admin", "123">>

-----------------------------------------------------------------------------
(* The store as a value, and the SQL statements setup_database executes.   *)

EmptyStore ==
    [tables |-> {}, columns |-> [t \in TableNames |-> {}],
     hubs |-> {}, users |-> {}, hub_metrics |-> {}, hub_capabilities |-> {},
     client_metrics |-> {}, people_metrics |-> {}]

Store ==
    [tables |-> tables, columns |-> columns, hubs |-> hubs, users |-> users,
     hub_metrics |-> hub_metrics, hub_capabilities |-> hub_capabilities,
     client_metrics |-> client_metrics, people_metrics |-> people_metrics]

SetStore(s) ==
    /\ tables' = s.tables
    /\ columns' = s.columns
    /\ hubs' = s.hubs
    /\ users' = s.users
    /\ hub_metrics' = s.hub_metrics
    /\ hub_capabilities' = s.hub_capabilities
    /\ client_metrics' = s.client_metrics
    /\ people_metrics' = s.people_metrics

\* INTEGER PRIMARY KEY: the new rowid is one more than the largest in the table
NextId(rows) ==
    IF rows = {} THEN 1
    ELSE (CHOOSE r \in rows : \A q \in rows : q.id <= r.id).id + 1

\* Value of an evolvable column that an INSERT does not name: the declared
\* default when the column exists, nothing when the table has no such column.
InsertDefault(s, t, c, ts) ==
    IF c \notin s.columns[t] THEN
        (IF c \in {"location_headcounts", "certifications", "capability_name"}
         THEN JsonNull ELSE NULL)
    ELSE IF c \in {"capability_updated_at", "people_metric_updated_at"} THEN ts
    ELSE ColumnDefault(c)

\* CREATE TABLE IF NOT EXISTS for the six tables (lines 67-180)
create_tables(s) ==
    [s EXCEPT !.tables = TableNames,
              !.columns = [t \in TableNames |->
                              IF t \in s.tables THEN s.columns[t] ELSE CreateColumns(t)]]

\* PRAGMA table_info(t): the column names of t
table_info(s, t) == s.columns[t]

\* ALTER TABLE t ADD COLUMN c <type> [DEFAULT d]
alter_table_add_column(s, t, c) ==
    [s EXCEPT !.columns[t] = @ \cup {c},
              ![t] = {[r EXCEPT ![c] = ColumnDefault(c)] : r \in s[t]}]

\* a migration that stops after the first column it adds
add_missing_columns_first_only(s, t, snapshot, specs) ==
    LET todo == SelectSeq(specs, LAMBDA sp : sp.col \notin snapshot) IN
    IF todo = <<>> \/ Head(todo).col \in s.columns[t] THEN [s |-> s, raised |-> FALSE]
    ELSE [s |-> alter_table_add_column(s, t, Head(todo).col), raised |-> FALSE]

\* One "if column not in columns: ALTER TABLE ..." block. spec.safe tells that
\* the ALTER goes through add_column_if_not_exists, which swallows the
\* OperationalError of a duplicate column; spec.fill tells that the block
\* also runs UPDATE people_metrics SET date_created = updated_at.
RECURSIVE add_missing_columns(_, _, _, _)
add_missing_columns(s, t, snapshot, specs) ==
    IF specs = <<>> THEN [s |-> s, raised |-> FALSE]
    ELSE LET sp == Head(specs) IN
         IF sp.col \in snapshot THEN add_missing_columns(s, t, snapshot, Tail(specs))
         ELSE IF sp.col \in s.columns[t]
              THEN (IF sp.safe THEN add_missing_columns(s, t, snapshot, Tail(specs))
                    ELSE [s |-> s, raised |-> TRUE])
              ELSE LET s1 == alter_table_add_column(s, t, sp.col)
                       s2 == IF sp.fill
                             THEN [s1 EXCEPT ![t] =
                                     {IF r[sp.col] = NULL
                                      THEN [r EXCEPT ![sp.col] = r.updated_at] ELSE r
                                      : r \in s1[t]}]
                             ELSE s1
                   IN add_missing_columns(s2, t, snapshot, Tail(specs))

ColSpec(c, safe, fill) == [col |-> c, safe |-> safe, fill |-> fill]

hub_metrics_new_columns ==
    <<ColSpec("bench_count", FALSE, FALSE), ColSpec("location_headcounts", FALSE, FALSE),
      ColSpec("certifications", FALSE, FALSE)>>
hub_metrics_timestamp_columns ==
    <<ColSpec("metrics_updated_at", FALSE, FALSE), ColSpec("location_updated_at", FALSE, FALSE),
      ColSpec("certifications_updated_at", FALSE, FALSE)>>
capabilities_new_columns ==
    <<ColSpec("capability_updated_at", FALSE, FALSE), ColSpec("headcount", TRUE, FALSE)>>
client_new_columns ==
    <<ColSpec("employee_count", FALSE, FALSE), ColSpec("client_updated_at", FALSE, FALSE),
      ColSpec("capability_name", FALSE, FALSE), ColSpec("relationship_duration", FALSE, FALSE)>>
people_new_columns ==
    <<ColSpec("date_created", FALSE, TRUE), ColSpec("people_metric_updated_at", FALSE, FALSE)>>

-----------------------------------------------------------------------------
(* Seeding (lines 213-327).                                                *)

hub_row(id, hub_name, ts) ==
    [id |-> id, hub_name |-> hub_name, created_at |-> ts, updated_at |-> ts]

user_row(id, username, password_hash, hub_name, is_admin, ts) ==
    [id |-> id, username |-> username, password_hash |-> password_hash,
     hub_name |-> hub_name, is_admin |-> is_admin, created_at |-> ts]

\* INSERT INTO hub_metrics (...) VALUES (hub_id, 95, 76, 12, 8, 35.0, 63.0, 2.0, ...)
seed_hub_metrics_row(s, id, hub_id, hub_name, ts) ==
    [id |-> id, hub_id |-> hub_id,
     total_headcount |-> 95, total_seats |-> 76, total_clients |-> 12,
     services_offered |-> 8,
     female_percent |-> Pct(35, 1), male_percent |-> Pct(63, 1),
     other_gender_percent |-> Pct(2, 1),
     campus_type |-> IF NameHas(hub_name, "AKQA") \/ NameHas(hub_name, "GroupM")
                        \/ NameHas(hub_name, "VML-Tech Commerce")
                        \/ NameHas(hub_name, "Hogarth Studios")
                     THEN "In-Campus" ELSE "Outside-Campus",
     sez_status |-> IF NameHas(hub_name, "Hogarth Worldwide") THEN "Yes" ELSE "No",
     location |-> IF NameHas(hub_name, "Hogarth Worldwide")
                     THEN "Chennai, Hyderabad, Gurugram"
                  ELSE IF NameHas(hub_name, "Verticurl")
                     THEN "Coimbatore, Hyderabad, Gurugram"
                  ELSE IF NameHas(hub_name, "Mirum") THEN "Mumbai and Gurugram"
                  ELSE "Gurugram",
     coverage_hours |-> "24x5",
     transport_facilities |-> IF NameHas(hub_name, "Hogarth") \/ NameHas(hub_name, "Verticurl")
                              THEN "Yes" ELSE "No",
     updated_at |-> ts, updated_by |-> NullText,
     bench_count |-> InsertDefault(s, "hub_metrics", "bench_count", ts),
     location_headcounts |-> InsertDefault(s, "hub_metrics", "location_headcounts", ts),
     certifications |-> InsertDefault(s, "hub_metrics", "certifications", ts),
     metrics_updated_at |-> InsertDefault(s, "hub_metrics", "metrics_updated_at", ts),
     location_updated_at |-> InsertDefault(s, "hub_metrics", "location_updated_at", ts),
     certifications_updated_at |->
         InsertDefault(s, "hub_metrics", "certifications_updated_at", ts)]

capability_row(id, hub_id, name, category, headcount, updated_at, updated_by, cap_ts) ==
    [id |-> id, hub_id |-> hub_id, capability_name |-> name,
     capability_category |-> category, headcount |-> headcount,
     updated_at |-> updated_at, updated_by |-> updated_by,
     capability_updated_at |-> cap_ts]

client_row(id, hub_id, name, status, model, category, services, duration, scope, updated_at, updated_by, employee_count, client_ts) ==
    [id |-> id, hub_id |-> hub_id, client_name |-> name, engagement_status |-> status,
     commercial_model |-> model, capability_category |-> category,
     capability_name |-> services, relationship_duration |-> duration,
     scope_summary |-> scope, updated_at |-> updated_at, updated_by |-> updated_by,
     employee_count |-> employee_count, client_updated_at |-> client_ts]

people_row(id, hub_id, name, value, category, period, updated_at, updated_by, people_ts, date_created) ==
    [id |-> id, hub_id |-> hub_id, metric_name |-> name, metric_value |-> value,
     metric_category |-> category, time_period |-> period, hiring_reason |-> NullText,
     updated_at |-> updated_at, updated_by |-> updated_by,
     people_metric_updated_at |-> people_ts, date_created |-> date_created]

\* The body of "for hub_name in default_hubs" for one hub. The INSERT INTO hubs
\* fails on UNIQUE(hub_name); the INSERT INTO hub_capabilities names the column
\* headcount and fails when the table lacks it. Rows inserted before a failing
\* statement stay (get_db_connection commits on the way out).
seed_one_hub(s, hub_name, ts) ==
    IF \E h \in s.hubs : h.hub_name = hub_name THEN [s |-> s, raised |-> TRUE]
    ELSE
    LET hub_id == NextId(s.hubs)
        s1 == [s EXCEPT !.hubs = @ \cup {hub_row(hub_id, hub_name, ts)},
                        !.hub_metrics = @ \cup
                            {seed_hub_metrics_row(s, NextId(s.hub_metrics), hub_id, hub_name, ts)}]
        caps == SelectSeq(capabilities_data, LAMBDA p : p[2] = primary_category(hub_name))
        cap0 == NextId(s.hub_capabilities) - 1
        cli0 == NextId(s.client_metrics) - 1
        ppl0 == NextId(s.people_metrics) - 1
    IN IF "headcount" \notin s.columns["hub_capabilities"] /\ caps # <<>>
       THEN [s |-> s1, raised |-> TRUE]
       ELSE [s |-> [s1 EXCEPT
               !.hub_capabilities = @ \cup
                   {capability_row(cap0 + i, hub_id, caps[i][1], caps[i][2], 0, ts, NullText,
                        InsertDefault(s, "hub_capabilities", "capability_updated_at", ts))
                    : i \in 1..Len(caps)},
               !.client_metrics = @ \cup
                   {client_row(cli0 + i, hub_id, sample_clients[i], "Active", "FTE",
                        primary_category(hub_name),
                        InsertDefault(s, "client_metrics", "capability_name", ts),
                        InsertDefault(s, "client_metrics", "relationship_duration", ts),
                        "Sample scope details", ts, NullText,
                        InsertDefault(s, "client_metrics", "employee_count", ts),
                        InsertDefault(s, "client_metrics", "client_updated_at", ts))
                    : i \in 1..NumSampleClients},
               !.people_metrics = @ \cup
                   {people_row(ppl0 + i, hub_id, people_metric_types[i][1],
                        people_metric_types[i][4], people_metric_types[i][2],
                        people_metric_types[i][3], ts, NullText,
                        InsertDefault(s, "people_metrics", "people_metric_updated_at", ts),
                        InsertDefault(s, "people_metrics", "date_created", ts))
                    : i \in 1..Len(people_metric_types)}],
             raised |-> FALSE]

RECURSIVE seed_hubs(_, _, _)
seed_hubs(s, names, ts) ==
    IF names = <<>> THEN [s |-> s, raised |-> FALSE]
    ELSE LET r == seed_one_hub(s, Head(names), ts) IN
         IF r.raised THEN r ELSE seed_hubs(r.s, Tail(names), ts)

\* a seeding that also gives the sample clients to every hub that has none
seed_default_data_refill(empty, s, ts) ==
    IF empty THEN seed_hubs(s, default_hubs, ts)
    ELSE LET bare == {h \in s.hubs : ~\E c \in s.client_metrics : c.hub_id = h.id}
             base == NextId(s.client_metrics) - 1
             nth(h) == Cardinality({g \in bare : g.id < h.id})
         IN [s |-> [s EXCEPT !.client_metrics = @ \cup
                      {client_row(base + nth(h) * NumSampleClients + i, h.id, sample_clients[i],
                                  "Active", "FTE", primary_category(h.hub_name), JsonNull, NULL,
                                  "Sample scope details", ts, NullText, 0, ts)
                       : h \in bare, i \in 1..NumSampleClients}],
             raised |-> FALSE]

\* "if c.fetchone()[0] == 0:" and the loop over default_hubs (lines 213-303);
\* empty is the result of the row-count test on hubs
seed_default_data(empty, s, ts) ==
    IF empty THEN seed_hubs(s, default_hubs, ts) ELSE [s |-> s, raised |-> FALSE]

\* rows of a table in rowid order
RECURSIVE ById(_)
ById(rows) ==
    IF rows = {} THEN <<>>
    ELSE LET r == CHOOSE x \in rows : \A y \in rows : x.id <= y.id
         IN <<r>> \o ById(rows \ {r})

\* INSERT INTO users: fails on UNIQUE(username)
insert_user(s, username, password, hub_name, is_admin, ts) ==
    IF \E u \in s.users : u.username = username THEN [s |-> s, raised |-> TRUE]
    ELSE [s |-> [s EXCEPT !.users = @ \cup
                    {user_row(NextId(s.users), username, sha256(password),
                              hub_name, is_admin, ts)}],
          raised |-> FALSE]

RECURSIVE seed_hub_users(_, _, _)
seed_hub_users(s, hubrows, ts) ==
    IF hubrows = <<>> THEN [s |-> s, raised |-> FALSE]
    ELSE LET username == username_of(Head(hubrows).hub_name)
             r == insert_user(s, username, default_password(username),
                              Head(hubrows).hub_name, 0, ts)
         IN IF r.raised THEN r ELSE seed_hub_users(r.s, Tail(hubrows), ts)

\* the admin user, then one user per row of hubs (lines 308-327)
seed_users(s, ts) ==
    LET r == insert_user(s, "admin", admin_password, "ALL", 1, ts) IN
    IF r.raised THEN r ELSE seed_hub_users(r.s, ById(r.s.hubs), ts)

-----------------------------------------------------------------------------
(* Timestamp backfill (lines 387-410).                                     *)

tables_to_update == <<
    <<"hub_metrics", {"metrics_updated_at", "location_updated_at", "certifications_updated_at"}>>,
    <<"hub_capabilities", {"capability_updated_at"}>>,
    <<"client_metrics", {"client_updated_at"}>>,
    <<"people_metrics", {"people_metric_updated_at"}>> >>

\* the backfill with AND in place of OR in the WHERE clause of the SELECT
backfill_table_all_null(s, t, cols, ts) ==
    [s EXCEPT ![t] =
        {IF \A c \in cols : r[c] = NULL
         THEN [f \in DOMAIN r |-> IF f \in cols THEN ts ELSE r[f]]
         ELSE r : r \in s[t]}]

\* SELECT id WHERE c1 IS NULL OR ...; then UPDATE ... SET every column of the
\* table's list = CURRENT_TIMESTAMP for each selected id
backfill_table(s, t, cols, ts) ==
    [s EXCEPT ![t] =
        {IF \E c \in cols : r[c] = NULL
         THEN [f \in DOMAIN r |-> IF f \in cols THEN ts ELSE r[f]]
         ELSE r : r \in s[t]}]

RECURSIVE backfill(_, _, _)
backfill(s, infos, ts) ==
    IF infos = <<>> THEN [s |-> s, raised |-> FALSE]
    ELSE LET t == Head(infos)[1]
             cols == Head(infos)[2]
         IN IF ~(cols \subseteq s.columns[t]) THEN [s |-> s, raised |-> TRUE]
            ELSE backfill(backfill_table(s, t, cols, ts), Tail(infos), ts)

-----------------------------------------------------------------------------
(* setup_database (lines 56-410), one step per group of SQL statements.    *)
(* l is the state of one execution: its position pc, the column list of    *)
(* the last PRAGMA table_info, the result of the last row-count test, and    *)
(* the statement that raised, if one did.                                   *)

NewRun == [pc |-> "create", columns |-> {}, empty |-> FALSE, abort |-> "none"]

Goto(l, pc) == [l EXCEPT !.pc = pc]
Raise(l, cause) == [l EXCEPT !.pc = "raised", !.abort = cause]

\* PRAGMA table_info(t) and the list comprehension over its rows
read_columns(l, s, t, next) ==
    [s |-> s, l |-> [l EXCEPT !.pc = next, !.columns = table_info(s, t)]]

\* the "if column not in columns" blocks that follow one PRAGMA table_info
add_columns(l, s, t, specs, next) ==
    LET r == add_missing_columns(s, t, l.columns, specs) IN
    [s |-> r.s, l |-> IF r.raised THEN Raise(l, "alter") ELSE Goto(l, next)]

setup_step(l, s, ts) ==
    CASE l.pc = "create" ->
            [s |-> create_tables(s), l |-> Goto(l, "info_hub_metrics")]
      [] l.pc = "info_hub_metrics" ->
            read_columns(l, s, "hub_metrics", "alter_hub_metrics")
      [] l.pc = "alter_hub_metrics" ->
            add_columns(l, s, "hub_metrics", hub_metrics_new_columns, "count_hubs")
      [] l.pc = "count_hubs" ->
            [s |-> s, l |-> [l EXCEPT !.pc = "seed_hubs", !.empty = (Cardinality(s.hubs) = 0)]]
      [] l.pc = "seed_hubs" ->
            LET r == seed_default_data(l.empty, s, ts) IN
            [s |-> r.s, l |-> IF r.raised THEN Raise(l, "seed") ELSE Goto(l, "count_users")]
      [] l.pc = "count_users" ->
            [s |-> s, l |-> [l EXCEPT !.pc = "seed_users", !.empty = (Cardinality(s.users) = 0)]]
      [] l.pc = "seed_users" ->
            IF l.empty
            THEN LET r == seed_users(s, ts) IN
                 [s |-> r.s, l |-> IF r.raised THEN Raise(l, "seed")
                                   ELSE Goto(l, "info_hub_metrics_ts")]
            ELSE [s |-> s, l |-> Goto(l, "info_hub_metrics_ts")]
      [] l.pc = "info_hub_metrics_ts" ->
            read_columns(l, s, "hub_metrics", "alter_hub_metrics_ts")
      [] l.pc = "alter_hub_metrics_ts" ->
            add_columns(l, s, "hub_metrics", hub_metrics_timestamp_columns, "info_capabilities")
      [] l.pc = "info_capabilities" ->
            read_columns(l, s, "hub_capabilities", "alter_capabilities")
      [] l.pc = "alter_capabilities" ->
            add_columns(l, s, "hub_capabilities", capabilities_new_columns, "info_client")
      [] l.pc = "info_client" ->
            read_columns(l, s, "client_metrics", "alter_client")
      [] l.pc = "alter_client" ->
            add_columns(l, s, "client_metrics", client_new_columns, "info_people")
      [] l.pc = "info_people" ->
            read_columns(l, s, "people_metrics", "alter_people")
      [] l.pc = "alter_people" ->
            add_columns(l, s, "people_metrics", people_new_columns, "backfill")
      [] l.pc = "backfill" ->
            LET r == backfill(s, tables_to_update, ts) IN
            [s |-> r.s, l |-> IF r.raised THEN Raise(l, "backfill") ELSE Goto(l, "done")]
      [] OTHER -> [s |-> s, l |-> l]

\* a whole execution of setup_database, no other statement interleaved
RECURSIVE run_from(_, _, _)
run_from(l, s, ts) ==
    IF l.pc \in {"done", "raised"} THEN [s |-> s, l |-> l]
    ELSE LET r == setup_step(l, s, ts) IN run_from(r.l, r.s, ts)

setup_database(s, ts) == run_from(NewRun, s, ts)

-----------------------------------------------------------------------------
(* Time periods and the order Python's sorted() gives them.                *)

\* datetime.now().strftime("%b %Y") as the clock advances month by month
month_periods == <<"Nov 2026", "Dec 2026", "Jan 2027", "Feb 2027">>

current_month_year(clock) == month_periods[clock + 1]

NaT == NULL

\* pd.to_datetime(x, format="%b %Y", errors='coerce'): the month, counted
\* from the first of month_periods, or NaT for a text that is not "Mon YYYY"
to_datetime(x) ==
    IF \E i \in 1..Len(month_periods) : month_periods[i] = x
    THEN CHOOSE i \in 1..Len(month_periods) : month_periods[i] = x
    ELSE NaT

\* a < b on the sort keys: every comparison with NaT is False
key_lt(a, b) == a # NaT /\ b # NaT /\ a < b

Reverse(seq) == [i \in 1..Len(seq) |-> seq[Len(seq) + 1 - i]]

\* count_run of list.sort: the length of the run that starts the list, and
\* whether it is strictly descending
RECURSIVE run_length(_, _, _)
run_length(xs, i, descending) ==
    IF i >= Len(xs) THEN i
    ELSE IF key_lt(to_datetime(xs[i + 1]), to_datetime(xs[i])) = descending
         THEN run_length(xs, i + 1, descending)
         ELSE i

\* the insertion point of binarysort, positions counted from 0
RECURSIVE bisect(_, _, _, _)
bisect(xs, pivot, lo, hi) ==
    IF lo >= hi THEN lo
    ELSE LET mid == (lo + hi) \div 2 IN
         IF key_lt(to_datetime(pivot), to_datetime(xs[mid + 1]))
         THEN bisect(xs, pivot, lo, mid)
         ELSE bisect(xs, pivot, mid + 1, hi)

\* binarysort: xs[1..start] is sorted, the rest is inserted one by one
RECURSIVE binarysort(_, _)
binarysort(xs, start) ==
    IF start >= Len(xs) THEN xs
    ELSE LET pivot == xs[start + 1]
             pos == bisect(xs, pivot, 0, start)
         IN binarysort(SubSeq(xs, 1, pos) \o <<pivot>> \o SubSeq(xs, pos + 1, start)
                          \o SubSeq(xs, start + 2, Len(xs)),
                       start + 1)

\* list.sort on fewer than 64 items: one run, then binary insertion
list_sort(xs) ==
    IF Len(xs) < 2 THEN xs
    ELSE LET descending == key_lt(to_datetime(xs[2]), to_datetime(xs[1]))
             n == run_length(xs, 2, descending)
             run == IF descending
                    THEN Reverse(SubSeq(xs, 1, n)) \o SubSeq(xs, n + 1, Len(xs))
                    ELSE xs
         IN binarysort(run, n)

\* sorted(periods, key=lambda x: pd.to_datetime(x, format="%b %Y",
\* errors='coerce'), reverse=reverse); reverse=True reverses the list before
\* and after the sort
sorted_periods(periods, reverse) ==
    IF reverse THEN Reverse(list_sort(Reverse(periods))) ELSE list_sort(periods)

\* Series.unique(): the values in order of first appearance
RECURSIVE unique(_)
unique(xs) ==
    IF xs = <<>> THEN <<>>
    ELSE LET init == unique(SubSeq(xs, 1, Len(xs) - 1))
             last == xs[Len(xs)]
         IN IF \E i \in 1..Len(init) : init[i] = last THEN init ELSE Append(init, last)

-----------------------------------------------------------------------------
(* Age of a timestamp (lines 570-612, 1382-1408). The clock and parsed     *)
(* timestamps count hours here; a timestamp string is of kind "nan" (NaN), *)
(* "bad" (strptime raises) or "ok" with the hour it denotes.               *)


\* (datetime.now() - timestamp).days
diff_days(timestamp, clock) == (clock - timestamp.hour) \div 24

is_outdated(timestamp_str, clock) ==
    IF timestamp_str.kind # "ok" THEN TRUE
    ELSE diff_days(timestamp_str, clock) > 30

color_by_days(val, clock) ==
    IF val.kind # "ok" THEN "#FF9999"
    ELSE LET days == diff_days(val, clock) IN
         IF days < 30 THEN "#99FF99"
         ELSE IF days < 35 THEN "#FFFF99"
         ELSE "#FF9999"

\* get_time_difference with "days <= 30" in place of "days < 30"
get_time_difference_late_months(timestamp_str, clock, minute) ==
    IF timestamp_str.kind = "nan" THEN <<0, "Never">>
    ELSE IF timestamp_str.kind = "bad" THEN <<0, "Unknown">>
    ELSE LET days == diff_days(timestamp_str, clock)
             seconds == ((clock - timestamp_str.hour) % 24) * 3600 + minute * 60
         IN IF days = 0
            THEN (IF seconds \div 3600 = 0 THEN <<seconds \div 60, "minutes ago">>
                  ELSE <<seconds \div 3600, "hours ago">>)
            ELSE IF days = 1 THEN <<1, "Yesterday">>
            ELSE IF days <= 30 THEN <<days, "days ago">>
            ELSE IF days < 365 THEN <<days \div 30, "months ago">>
            ELSE <<days \div 365, "years ago">>

\* "<n> <unit> ago" is the pair <<n, unit>>; datetime.now() is minute minutes
\* past the hour clock
get_time_difference(timestamp_str, clock, minute) ==
    IF timestamp_str.kind = "nan" THEN <<0, "Never">>
    ELSE IF timestamp_str.kind = "bad" THEN <<0, "Unknown">>
    ELSE LET days == diff_days(timestamp_str, clock)
             seconds == ((clock - timestamp_str.hour) % 24) * 3600 + minute * 60
         IN IF days = 0
            THEN (IF seconds \div 3600 = 0 THEN <<seconds \div 60, "minutes ago">>
                  ELSE <<seconds \div 3600, "hours ago">>)
            ELSE IF days = 1 THEN <<1, "Yesterday">>
            ELSE IF days < 30 THEN <<days, "days ago">>
            ELSE IF days < 365 THEN <<days \div 30, "months ago">>
            ELSE <<days \div 365, "years ago">>

-----------------------------------------------------------------------------
(* Stores the program starts on.                                           *)

\* the store a first start leaves behind
SeededStore == setup_database(EmptyStore, 0).s

\* a store set up by an earlier version of the program: the same rows, but
\* the tables lack the columns in missing
LegacyStore(missing) ==
    LET lacks(t) == {c \in EvolvableColumns(t) : <<t, c>> \in missing}
        strip(t, r) == [f \in DOMAIN r |->
                           IF f \in lacks(t) THEN InsertDefault(EmptyStore, t, f, 0)
                           ELSE r[f]]
    IN [SeededStore EXCEPT
           !.columns = [t \in TableNames |-> SeededStore.columns[t] \ lacks(t)],
           !.hub_metrics = {strip("hub_metrics", r) : r \in SeededStore.hub_metrics},
           !.hub_capabilities = {strip("hub_capabilities", r) : r \in SeededStore.hub_capabilities},
           !.client_metrics = {strip("client_metrics", r) : r \in SeededStore.client_metrics},
           !.people_metrics = {strip("people_metrics", r) : r \in SeededStore.people_metrics}]

Migrators == {1, 2}

MissingSets(k) == {m \in SUBSET AllEvolvable : Cardinality(m) <= k}

-----------------------------------------------------------------------------
(* Reads and writes of the pages after login. A write returns the store    *)
(* and whether the statement went through.                                 *)

Ok(s) == [s |-> s, ok |-> TRUE]
Failed(s) == [s |-> s, ok |-> FALSE]

\* BINARY collation of the texts that the queries order by
collation == <<
    "", "2025", "2026", "2027", "Acme", "Bench Count", "CONTENT+", "CX+", "Client 1",
    "Client 2", "Client 3", "Client 4", "Client 5", "Contract Employees", "Dec 2026",
    "Employment Type", "Feb 2027", "Female", "Gender", "Jan 2027", "MEDIA+", "Male",
    "Marital Status", "Married", "Nov 2026",
    "Other Gender", "Other Marital Status", "Permanent Employees", "Single",
    "Staffing", "Tenure", "Tenure 1-2 years", "Tenure 10+ years", "Tenure 2-3 years",
    "Tenure 3-5 years", "Tenure 5-7 years", "Tenure 7-10 years", "Tenure <1 year",
    "Zenith" >>

\* the position of each text in the collation
collation_rank ==
    [x \in {collation[i] : i \in 1..Len(collation)} |->
        CHOOSE i \in 1..Len(collation) : collation[i] = x]

TextRank(x) == collation_rank[x]

\* x sorts before y under ORDER BY cols, ties in rowid order
RECURSIVE row_before(_, _, _)
row_before(x, y, cols) ==
    IF cols = <<>> THEN x.id <= y.id
    ELSE LET a == TextRank(x[Head(cols)])
             b == TextRank(y[Head(cols)])
         IN a < b \/ (a = b /\ row_before(x, y, Tail(cols)))

\* rows in the order of ORDER BY cols
RECURSIVE OrderBy(_, _)
OrderBy(rows, cols) ==
    IF rows = {} THEN <<>>
    ELSE LET x == CHOOSE r \in rows : TRUE
             rest == OrderBy(rows \ {x}, cols)
             k == Cardinality({i \in 1..Len(rest) : row_before(rest[i], x, cols)})
         IN SubSeq(rest, 1, k) \o <<x>> \o SubSeq(rest, k + 1, Len(rest))

\* SELECT id FROM hubs WHERE hub_name = ?
hub_id_of(s, hub_name) ==
    IF \E h \in s.hubs : h.hub_name = hub_name
    THEN (CHOOSE h \in s.hubs : h.hub_name = hub_name).id ELSE NULL

get_hub_capabilities(s, hub_name) ==
    IF hub_name = "ALL" THEN {c \in s.hub_capabilities : \E h \in s.hubs : h.id = c.hub_id}
    ELSE {c \in s.hub_capabilities : c.hub_id = hub_id_of(s, hub_name)}

get_client_metrics(s, hub_name) ==
    IF hub_name = "ALL" THEN {c \in s.client_metrics : \E h \in s.hubs : h.id = c.hub_id}
    ELSE {c \in s.client_metrics : c.hub_id = hub_id_of(s, hub_name)}

update_hub_capability(s, capability_data, ts) ==
    IF "headcount" \notin DOMAIN capability_data THEN Failed(s)
    ELSE IF ~({"headcount", "capability_updated_at"} \subseteq s.columns["hub_capabilities"])
    THEN Failed(s)
    ELSE Ok([s EXCEPT !.hub_capabilities =
               {IF r.id = capability_data.id
                THEN [r EXCEPT !.headcount = capability_data.headcount,
                               !.updated_at = ts,
                               !.updated_by = capability_data.updated_by,
                               !.capability_updated_at = ts]
                ELSE r : r \in @}])

\* the INSERT of the "Add Capability" form without the UNIQUE constraint
insert_capability_no_unique(s, hub_id, name, category, headcount, updated_by, ts) ==
    Ok([s EXCEPT !.hub_capabilities = @ \cup
          {capability_row(NextId(s.hub_capabilities), hub_id, name, category, headcount,
                          ts, updated_by, ts)}])

\* INSERT INTO hub_capabilities (...) of the "Add Capability" form; the table
\* has UNIQUE(hub_id, capability_name)
insert_capability(s, hub_id, name, category, headcount, updated_by, ts) ==
    IF \E r \in s.hub_capabilities : r.hub_id = hub_id /\ r.capability_name = name
    THEN Failed(s)
    ELSE Ok([s EXCEPT !.hub_capabilities = @ \cup
               {capability_row(NextId(s.hub_capabilities), hub_id, name, category, headcount,
                               ts, updated_by, ts)}])

RECURSIVE update_changed_capabilities(_, _, _, _, _)
update_changed_capabilities(s, rows, employees, updated_by, ts) ==
    IF rows = <<>> THEN s
    ELSE LET r == Head(rows)
             s1 == IF r.headcount # employees[r.id]
                   THEN update_hub_capability(s, [id |-> r.id, headcount |-> employees[r.id],
                                                  updated_by |-> updated_by], ts).s
                   ELSE s
         IN update_changed_capabilities(s1, Tail(rows), employees, updated_by, ts)

\* "Save <category> Changes": category_df are the rows the page loaded, remove
\* the ids ticked in the Remove column, employees the Employees column
save_capability_changes(s, category_df, remove, employees, updated_by, ts) ==
    LET s1 == [s EXCEPT !.hub_capabilities = {r \in @ : r.id \notin remove}]
        rows_to_update == {r \in category_df : r.id \notin remove}
    IN update_changed_capabilities(s1, ById(rows_to_update), employees, updated_by, ts)

\* hub_capability_mapping[hub_name][0], "" for a hub that is not a key
hub_capability_mapping(hub_name) ==
    CASE hub_name \in {"AKQA", "Mirum Digital Pvt Ltd", "Verticurl", "VML-Tech Commerce"} -> "CX+"
      [] hub_name = "GroupM Nexus Global Team" -> "MEDIA+"
      [] hub_name \in {"Hogarth Worldwide", "Hogarth Studios"} -> "CONTENT+"
      [] OTHER -> ""

\* UNIQUE(hub_id, client_name) and client_name NOT NULL, for row id taking name
client_name_taken(s, id, hub_id, name) ==
    \/ name = NullText
    \/ \E r \in s.client_metrics : r.id # id /\ r.hub_id = hub_id /\ r.client_name = name

\* add_client_metric without the UNIQUE constraint
add_client_metric_no_unique(s, client_data, ts) ==
    Ok([s EXCEPT !.client_metrics = @ \cup
          {client_row(NextId(s.client_metrics), client_data.hub_id, client_data.client_name,
                      client_data.engagement_status, client_data.commercial_model,
                      client_data.capability_category, client_data.capability_name,
                      client_data.relationship_duration, client_data.scope_summary,
                      ts, client_data.updated_by,
                      IF "employee_count" \in DOMAIN client_data
                      THEN client_data.employee_count ELSE 0,
                      ts)}])

add_client_metric(s, client_data, ts) ==
    IF \/ client_name_taken(s, NULL, client_data.hub_id, client_data.client_name)
       \/ ~(EvolvableColumns("client_metrics") \subseteq s.columns["client_metrics"])
    THEN Failed(s)
    ELSE Ok([s EXCEPT !.client_metrics = @ \cup
          {client_row(NextId(s.client_metrics), client_data.hub_id, client_data.client_name,
                      client_data.engagement_status, client_data.commercial_model,
                      client_data.capability_category, client_data.capability_name,
                      client_data.relationship_duration, client_data.scope_summary,
                      ts, client_data.updated_by,
                      IF "employee_count" \in DOMAIN client_data
                      THEN client_data.employee_count ELSE 0,
                      ts)}])

update_client_metric(s, client_data, ts) ==
    IF ~(EvolvableColumns("client_metrics") \subseteq s.columns["client_metrics"])
    THEN Failed(s)
    ELSE IF \E r \in s.client_metrics :
               /\ r.id = client_data.id
               /\ client_name_taken(s, r.id, r.hub_id, client_data.client_name)
    THEN Failed(s)
    ELSE Ok([s EXCEPT !.client_metrics =
               {IF r.id = client_data.id
                THEN [r EXCEPT !.client_name = client_data.client_name,
                               !.engagement_status = client_data.engagement_status,
                               !.commercial_model = client_data.commercial_model,
                               !.capability_category = client_data.capability_category,
                               !.capability_name = client_data.capability_name,
                               !.relationship_duration = client_data.relationship_duration,
                               !.scope_summary = client_data.scope_summary,
                               !.employee_count = IF "employee_count" \in DOMAIN client_data
                                                  THEN client_data.employee_count ELSE 0,
                               !.updated_at = ts,
                               !.updated_by = client_data.updated_by,
                               !.client_updated_at = ts]
                ELSE r : r \in @}])

get_first_service(service_json) ==
    IF service_json = JsonNull THEN ""
    ELSE IF service_json.items # <<>> THEN service_json.items[1] ELSE ""

\* the row of the client table editor for a stored row
display_row(r) ==
    [id |-> r.id, client_name |-> r.client_name, engagement_status |-> r.engagement_status,
     commercial_model |-> r.commercial_model, relationship_duration |-> r.relationship_duration,
     employee_count |-> r.employee_count, First_Service |-> get_first_service(r.capability_name),
     scope_summary |-> r.scope_summary, Delete |-> FALSE]

\* the UPDATE of "Save Client Changes" for one edited row; original is the row
\* the page loaded. ok is FALSE when the statement raised.
save_client_row(s, original, row, updated_by, ts) ==
    LET original_duration == IF original.relationship_duration = NULL THEN 0
                             ELSE original.relationship_duration
        original_scope == IF original.scope_summary = NullText THEN ""
                          ELSE original.scope_summary
        primary_service_changed ==
            row.First_Service # "" /\ row.First_Service # get_first_service(original.capability_name)
        current_services == IF original.capability_name = JsonNull THEN <<>>
                            ELSE original.capability_name.items
        service_json_updated ==
            IF primary_service_changed
            THEN JsonList(IF current_services # <<>>
                          THEN [current_services EXCEPT ![1] = row.First_Service]
                          ELSE <<row.First_Service>>)
            ELSE original.capability_name
        changed == \/ row.client_name # original.client_name
                   \/ row.engagement_status # original.engagement_status
                   \/ row.commercial_model # original.commercial_model
                   \/ row.relationship_duration # original_duration
                   \/ row.scope_summary # original_scope
                   \/ primary_service_changed
    IN IF ~changed THEN Ok(s)
       ELSE IF \E r \in s.client_metrics :
                  r.id = row.id /\ client_name_taken(s, r.id, r.hub_id, row.client_name)
       THEN Failed(s)
       ELSE Ok([s EXCEPT !.client_metrics =
                  {IF r.id = row.id
                   THEN [r EXCEPT !.client_name = row.client_name,
                                  !.engagement_status = row.engagement_status,
                                  !.commercial_model = row.commercial_model,
                                  !.relationship_duration = row.relationship_duration,
                                  !.scope_summary = row.scope_summary,
                                  !.capability_name = service_json_updated,
                                  !.employee_count = row.employee_count,
                                  !.updated_at = ts,
                                  !.updated_by = updated_by,
                                  !.client_updated_at = ts]
                   ELSE r : r \in @}])

\* the update loop of "Save Client Changes" over the rows in page order;
\* errors counts the rows whose UPDATE raised
RECURSIVE save_client_rows(_, _, _, _, _, _)
save_client_rows(s, originals, edited, updated_by, ts, errors) ==
    IF originals = <<>> THEN [s |-> s, errors |-> errors]
    ELSE LET o == Head(originals)
             row == CHOOSE e \in edited : e.id = o.id
             r == IF row.Delete THEN Ok(s) ELSE save_client_row(s, o, row, updated_by, ts)
         IN save_client_rows(r.s, Tail(originals), edited, updated_by, ts,
                             IF r.ok THEN errors ELSE errors + 1)

\* "Save Client Changes": filtered_df are the rows the page loaded, edited the
\* rows of the table editor
save_client_changes(s, filtered_df, edited, updated_by, ts) ==
    LET remove == {e.id : e \in {x \in edited : x.Delete}}
        s1 == [s EXCEPT !.client_metrics = {r \in @ : r.id \notin remove}]
    IN save_client_rows(s1, OrderBy(filtered_df, <<"client_name">>), edited, updated_by, ts, 0)

-----------------------------------------------------------------------------
(* People metrics and the hub metrics row (lines 525-568, 1036-1128,       *)
(* 1215-1258, 1410-1764, 2453-3302).                                       *)

RECURSIVE GCD(_, _)
GCD(a, b) == IF b = 0 THEN a ELSE GCD(b, a % b)

\* (count / total) * 100 as a fraction in lowest terms
percent_of(count, total) ==
    LET g == GCD(count * 100, total) IN Pct((count * 100) \div g, total \div g)

\* json.dumps of a dict: the set of its <<key, value>> items
JsonDict(items) == [kind |-> "dict", items |-> items]

\* get_people_metrics(hub_name) without a category, for a hub user
get_people_metrics(s, hub_name) ==
    OrderBy({p \in s.people_metrics : /\ p.hub_id = hub_id_of(s, hub_name)
                                      /\ p.metric_category # "Hiring"},
            <<"metric_category", "metric_name", "time_period">>)

\* df[df[col] == value]
where(df, col, value) == SelectSeq(df, LAMBDA r : r[col] = value)

column(df, col) == [i \in 1..Len(df) |-> df[i][col]]

\* sorted(names): Python compares str by code point
RECURSIVE sorted_text(_)
sorted_text(S) ==
    IF S = {} THEN <<>>
    ELSE LET x == CHOOSE a \in S : \A b \in S : TextRank(a) <= TextRank(b)
         IN <<x>> \o sorted_text(S \ {x})

\* UNIQUE(hub_id, metric_name, time_period, hiring_reason): a NULL in a
\* column of the key makes the row distinct from every other row
people_key_taken(s, id, hub_id, metric_name, time_period, hiring_reason) ==
    /\ time_period # NullText
    /\ hiring_reason # NullText
    /\ \E r \in s.people_metrics :
          /\ r.id # id /\ r.hub_id = hub_id /\ r.metric_name = metric_name
          /\ r.time_period = time_period /\ r.hiring_reason = hiring_reason

\* INSERT INTO people_metrics (hub_id, metric_name, metric_value,
\* metric_category, time_period, updated_by, updated_at,
\* people_metric_updated_at, date_created): hiring_reason is not named
insert_people_metric(s, hub_id, metric, value, category, period, updated_by, ts) ==
    IF \/ people_key_taken(s, NULL, hub_id, metric, period, NullText)
       \/ ~(EvolvableColumns("people_metrics") \subseteq s.columns["people_metrics"])
    THEN Failed(s)
    ELSE Ok([s EXCEPT !.people_metrics = @ \cup
               {people_row(NextId(s.people_metrics), hub_id, metric, value, category,
                           period, ts, updated_by, ts, ts)}])

update_people_metric(s, metric_data, ts) ==
    IF "people_metric_updated_at" \notin s.columns["people_metrics"] THEN Failed(s)
    ELSE IF /\ "hiring_reason" \in DOMAIN metric_data
            /\ \E r \in s.people_metrics :
                  /\ r.id = metric_data.id
                  /\ people_key_taken(s, r.id, r.hub_id, r.metric_name, r.time_period,
                                      metric_data.hiring_reason)
    THEN Failed(s)
    ELSE Ok([s EXCEPT !.people_metrics =
               {IF r.id = metric_data.id
                THEN [r EXCEPT !.metric_value = metric_data.metric_value,
                               !.hiring_reason = IF "hiring_reason" \in DOMAIN metric_data
                                                 THEN metric_data.hiring_reason ELSE @,
                               !.updated_at = ts,
                               !.updated_by = metric_data.updated_by,
                               !.people_metric_updated_at = ts]
                ELSE r : r \in @}])

\* the latest Employment Type period and the total headcount of the hub
\* metrics page (lines 1420-1444); latest is NullText when there is no row
total_headcount_calculated(s, current_hub) ==
    LET employment_type_df ==
            where(get_people_metrics(s, current_hub), "metric_category", "Employment Type")
        time_periods == sorted_periods(unique(column(employment_type_df, "time_period")), TRUE)
        latest_time_period == IF time_periods = <<>> THEN NullText ELSE time_periods[1]
        latest_employment_data == where(employment_type_df, "time_period", latest_time_period)
        permanent_row == where(latest_employment_data, "metric_name", "Permanent Employees")
        contract_row == where(latest_employment_data, "metric_name", "Contract Employees")
        permanent_count == IF permanent_row # <<>> THEN permanent_row[1].metric_value ELSE 0
        contract_count == IF contract_row # <<>> THEN contract_row[1].metric_value ELSE 0
    IN [latest_time_period |-> latest_time_period,
        total |-> IF latest_time_period # NullText /\ latest_time_period # ""
                  THEN permanent_count + contract_count ELSE 0]

\* the columns of hub_metrics that update_hub_metrics always writes
core_fields == {"total_headcount", "total_seats", "total_clients", "services_offered",
                "female_percent", "male_percent", "other_gender_percent", "campus_type",
                "sez_status", "location", "coverage_hours", "transport_facilities"}

optional_fields == {"bench_count", "location_headcounts", "certifications"}

\* update_hub_metrics with total_clients and services_offered left out of the
\* SET clause
update_hub_metrics_keep_counts(s, metrics_data, ts) ==
    IF \/ ~((optional_fields \cap DOMAIN metrics_data) \subseteq s.columns["hub_metrics"])
       \/ ~((core_fields \ {"female_percent", "male_percent", "other_gender_percent"})
              \cup {"id", "updated_by"} \subseteq DOMAIN metrics_data)
    THEN Failed(s)
    ELSE
    LET found == \E r \in s.hub_metrics : r.id = metrics_data.id
        current_metrics == CHOOSE r \in s.hub_metrics : r.id = metrics_data.id
        gender(f) == IF f \in DOMAIN metrics_data THEN metrics_data[f]
                     ELSE IF found THEN current_metrics[f] ELSE Pct(0, 1)
        value(r, f) ==
            IF f \in {"female_percent", "male_percent", "other_gender_percent"} THEN gender(f)
            ELSE IF f \in {"total_clients", "services_offered"} THEN r[f]
            ELSE IF f \in core_fields THEN metrics_data[f]
            ELSE IF f \in optional_fields /\ f \in DOMAIN metrics_data THEN metrics_data[f]
            ELSE IF f = "updated_at" THEN ts
            ELSE IF f = "updated_by" THEN metrics_data.updated_by
            ELSE r[f]
    IN Ok([s EXCEPT !.hub_metrics =
              {IF r.id = metrics_data.id THEN [f \in DOMAIN r |-> value(r, f)] ELSE r
               : r \in @}])

update_hub_metrics(s, metrics_data, ts) ==
    IF \/ ~((optional_fields \cap DOMAIN metrics_data) \subseteq s.columns["hub_metrics"])
       \/ ~((core_fields \ {"female_percent", "male_percent", "other_gender_percent"})
              \cup {"id", "updated_by"} \subseteq DOMAIN metrics_data)
    THEN Failed(s)
    ELSE
    LET found == \E r \in s.hub_metrics : r.id = metrics_data.id
        current_metrics == CHOOSE r \in s.hub_metrics : r.id = metrics_data.id
        gender(f) == IF f \in DOMAIN metrics_data THEN metrics_data[f]
                     ELSE IF found THEN current_metrics[f] ELSE Pct(0, 1)
        value(r, f) ==
            IF f \in {"female_percent", "male_percent", "other_gender_percent"} THEN gender(f)
            ELSE IF f \in core_fields THEN metrics_data[f]
            ELSE IF f \in optional_fields /\ f \in DOMAIN metrics_data THEN metrics_data[f]
            ELSE IF f = "updated_at" THEN ts
            ELSE IF f = "updated_by" THEN metrics_data.updated_by
            ELSE r[f]
    IN Ok([s EXCEPT !.hub_metrics =
              {IF r.id = metrics_data.id THEN [f \in DOMAIN r |-> value(r, f)] ELSE r
               : r \in @}])

\* get_hub_metrics(hub_name): the hub's rows of hub_metrics
get_hub_metrics(s, hub_name) == {r \in s.hub_metrics : r.hub_id = hub_id_of(s, hub_name)}

\* UPDATE hub_metrics SET female_percent, male_percent, other_gender_percent,
\* updated_at, updated_by WHERE hub_id = ? (lines 3214-3227, 3286-3293)
update_gender_percentages(s, hub_id, counts, total, updated_by, ts) ==
    [s EXCEPT !.hub_metrics =
        {IF r.hub_id = hub_id
         THEN [r EXCEPT !.female_percent = percent_of(counts[1], total),
                        !.male_percent = percent_of(counts[2], total),
                        !.other_gender_percent = percent_of(counts[3], total),
                        !.updated_at = ts,
                        !.updated_by = updated_by]
         ELSE r : r \in @}]

gender_metrics == <<"Female", "Male", "Other Gender">>

\* time periods of the Gender rows, newest first (lines 3030-3035)
gender_time_periods(s, current_hub) ==
    sorted_periods(unique(column(where(get_people_metrics(s, current_hub),
                                       "metric_category", "Gender"), "time_period")), TRUE)

\* the rows of the gender table editor: per period the three counts, the ids
\* of the rows they were read from (NULL when there is none) and the total
gender_table(s, current_hub) ==
    LET gender_df == where(get_people_metrics(s, current_hub), "metric_category", "Gender")
        time_periods == gender_time_periods(s, current_hub)
        value_row(period, metric) ==
            where(where(gender_df, "metric_name", metric), "time_period", period)
        row(period) ==
            LET counts == [j \in 1..3 |->
                             IF value_row(period, gender_metrics[j]) # <<>>
                             THEN value_row(period, gender_metrics[j])[1].metric_value ELSE 0]
            IN [period |-> period, counts |-> counts,
                ids |-> [j \in 1..3 |-> IF value_row(period, gender_metrics[j]) # <<>>
                                        THEN value_row(period, gender_metrics[j])[1].id
                                        ELSE NULL],
                Total |-> counts[1] + counts[2] + counts[3]]
    IN [i \in 1..Len(time_periods) |-> row(time_periods[i])]

\* "Add New Time Period" after the page has read time_periods (lines 3037-3064)
RECURSIVE insert_people_metrics(_, _, _, _, _, _, _, _)
insert_people_metrics(s, hub_id, metrics, values, category, period, updated_by, ts) ==
    IF metrics = <<>> THEN Ok(s)
    ELSE LET r == insert_people_metric(s, hub_id, Head(metrics), Head(values), category,
                                       period, updated_by, ts)
         IN IF r.ok
            THEN insert_people_metrics(r.s, hub_id, Tail(metrics), Tail(values), category,
                                       period, updated_by, ts)
            ELSE Failed(s)

add_gender_period(s, current_hub, time_periods, clock) ==
    LET new_period == current_month_year(clock)
    IN IF \A i \in 1..Len(time_periods) : time_periods[i] # new_period
       THEN insert_people_metrics(s, hub_id_of(s, current_hub), gender_metrics, <<0, 0, 0>>,
                                  "Gender", new_period, current_hub, clock)
       ELSE Ok(s)

\* the loop of "Save Gender Data" over the cells of the edited table, row by
\* row (lines 3153-3197); ok turns FALSE when a statement failed
RECURSIVE save_gender_cells(_, _, _, _, _, _, _)
save_gender_cells(s, table, edited, k, current_hub, ts, ok) ==
    IF k > 3 * Len(table) THEN [s |-> s, ok |-> ok]
    ELSE LET i == ((k - 1) \div 3) + 1
             j == ((k - 1) % 3) + 1
             metric_id == table[i].ids[j]
             r == IF metric_id # NULL /\ metric_id # 0
                  THEN update_people_metric(s, [id |-> metric_id,
                                                metric_value |-> edited[i][j],
                                                updated_by |-> current_hub], ts)
                  ELSE insert_people_metric(s, hub_id_of(s, current_hub), gender_metrics[j],
                                            edited[i][j], "Gender", table[i].period,
                                            current_hub, ts)
         IN save_gender_cells(r.s, table, edited, k + 1, current_hub, ts, ok /\ r.ok)

\* "Save Gender Data" (lines 3152-3232): edited holds the three counts of each
\* row of the table; the Total column cannot be edited and keeps the value
\* the table was built with
save_gender_data(s, current_hub, edited, ts) ==
    LET table == gender_table(s, current_hub)
        saved == save_gender_cells(s, table, edited, 1, current_hub, ts, TRUE)
        total == table[1].Total
    IN IF saved.ok /\ Len(table) > 0 /\ total > 0
       THEN Ok(update_gender_percentages(saved.s, hub_id_of(s, current_hub), edited[1],
                                         total, current_hub, ts))
       ELSE saved

\* "Save Initial Data" of the form shown while there is no Gender row
\* (lines 3238-3302), one transaction
init_gender_data(s, current_hub, counts, clock) ==
    LET inserted == insert_people_metrics(s, hub_id_of(s, current_hub), gender_metrics, counts,
                                          "Gender", current_month_year(clock), current_hub,
                                          clock)
        total_count == counts[1] + counts[2] + counts[3]
    IN IF inserted.ok /\ total_count > 0
       THEN Ok(update_gender_percentages(inserted.s, hub_id_of(s, current_hub), counts,
                                         total_count, current_hub, clock))
       ELSE inserted

\* the Employment Type table of the people page (lines 2504-2541, 2739-2782)
employment_df(s, current_hub) ==
    where(get_people_metrics(s, current_hub), "metric_category", "Employment Type")

employment_metric_names(s, current_hub) ==
    LET category_df == employment_df(s, current_hub)
    IN sorted_text({category_df[i].metric_name : i \in 1..Len(category_df)})

employment_time_periods(s, current_hub) ==
    sorted_periods(unique(column(employment_df(s, current_hub), "time_period")), FALSE)

is_current_month_missing(s, current_hub, clock) ==
    LET time_periods == employment_time_periods(s, current_hub)
    IN \A i \in 1..Len(time_periods) : time_periods[i] # current_month_year(clock)

\* "Save Changes" of the Employment Type table for one edited cell (lines
\* 2833-2895): the cells the editor did not touch compare equal and are skipped
save_people_cell(s, current_hub, period, metric, new_value, ts) ==
    LET value_row == where(where(employment_df(s, current_hub), "metric_name", metric),
                           "time_period", period)
        orig_value == IF value_row # <<>> THEN value_row[1].metric_value ELSE 0
        record_id == IF value_row # <<>> THEN value_row[1].id ELSE NULL
    IN IF orig_value = new_value THEN Ok(s)
       ELSE IF record_id # NULL /\ record_id # 0
       THEN update_people_metric(s, [id |-> record_id, metric_value |-> new_value,
                                     updated_by |-> current_hub], ts)
       ELSE insert_people_metric(s, hub_id_of(s, current_hub), metric, new_value,
                                 "Employment Type", period, current_hub, ts)

\* metrics_data of "Update Hub Metrics" (lines 1713-1757) for a hub with one
\* location: the totals are the calculated ones, the rest is the form
submitted_metrics_data(s, current_hub, row, total_seats, headcount, certifications) ==
    [id |-> row.id,
     total_headcount |-> total_headcount_calculated(s, current_hub).total,
     total_seats |-> total_seats,
     total_clients |-> Cardinality(get_client_metrics(s, current_hub)),
     services_offered |-> Cardinality(get_hub_capabilities(s, current_hub)),
     campus_type |-> row.campus_type,
     sez_status |-> row.sez_status,
     location |-> row.location,
     location_headcounts |-> JsonDict({<<row.location, headcount>>}),
     certifications |-> JsonDict(certifications),
     coverage_hours |-> row.coverage_hours,
     transport_facilities |-> row.transport_facilities,
     updated_by |-> current_hub]


\* what the behaviour has done so far: the last operation, the columns
\* the store started with, and the saves by editors
NoHistory == [op |-> "init", start_columns |-> columns, edits |-> 0, edited_after |-> NULL]

\* values typed into a number field
HeadcountValues == {0, 4}

\* the browser sessions that edit, each at a position of the script it runs
Editors == {1, 2}
NoEditors == [e \in Editors |-> [pc |-> "idle"]]

\* what the last rendered page shows
NoView == [page |-> "none"]

-----------------------------------------------------------------------------
(* Sequential starts of the program: setup_database runs to completion.    *)

InitSeq ==
    /\ \E s \in {EmptyStore} \cup {LegacyStore(m) : m \in MissingSets(MaxMissing)} :
          /\ tables = s.tables /\ columns = s.columns /\ hubs = s.hubs /\ users = s.users
          /\ hub_metrics = s.hub_metrics /\ hub_capabilities = s.hub_capabilities
          /\ client_metrics = s.client_metrics /\ people_metrics = s.people_metrics
    /\ now = 0
    /\ mig = [p \in Migrators |-> Goto(NewRun, "done")]
    /\ runs = <<>>
    /\ hist = NoHistory
    /\ ed = NoEditors
    /\ view = NoView

\* main() calls setup_database()
RunSetup ==
    /\ Len(runs) < MaxRuns
    /\ LET r == setup_database(Store, now) IN
          /\ SetStore(r.s)
          /\ runs' = Append(runs, [columns |-> r.s.columns, outcome |-> r.l.pc])
    /\ hist' = [hist EXCEPT !.op = "setup"]
    /\ UNCHANGED <<now, mig, ed, view>>

Tick ==
    /\ now < MaxTime
    /\ now' = now + 1
    /\ hist' = [hist EXCEPT !.op = "tick"]
    /\ UNCHANGED <<store_vars, mig, runs, ed, view>>

vars == <<tables, columns, hubs, users, hub_metrics, hub_capabilities,
          client_metrics, people_metrics, now, mig, runs, hist, ed, view>>

NextSeq == RunSetup \/ Tick

SpecSeq == InitSeq /\ [][NextSeq]_vars

-----------------------------------------------------------------------------
(* Concurrent starts: two sessions execute setup_database at the same time *)
(* on the shared connection, interleaved between statements.               *)

InitConc ==
    /\ \E s \in {EmptyStore} \cup {LegacyStore(m) : m \in MissingSets(MaxMissingConc)} :
          /\ tables = s.tables /\ columns = s.columns /\ hubs = s.hubs /\ users = s.users
          /\ hub_metrics = s.hub_metrics /\ hub_capabilities = s.hub_capabilities
          /\ client_metrics = s.client_metrics /\ people_metrics = s.people_metrics
    /\ now = 0
    /\ mig = [p \in Migrators |-> NewRun]
    /\ runs = <<>>
    /\ hist = NoHistory
    /\ ed = NoEditors
    /\ view = NoView

\* the next statement group of session p's setup_database
MigStep(p) ==
    /\ mig[p].pc \notin {"done", "raised"}
    /\ LET r == setup_step(mig[p], Store, now) IN
          /\ SetStore(r.s)
          /\ mig' = [mig EXCEPT ![p] = r.l]
    /\ UNCHANGED <<now, runs, hist, ed, view>>

NextConc == \E p \in Migrators : MigStep(p)

SpecConc == InitConc /\ [][NextConc]_vars

-----------------------------------------------------------------------------
(* Starts of the program on a new database, with editors saving changes    *)
(* between the starts.                                                     *)

InitSeed ==
    /\ tables = {} /\ columns = EmptyStore.columns /\ hubs = {} /\ users = {}
    /\ hub_metrics = {} /\ hub_capabilities = {} /\ client_metrics = {}
    /\ people_metrics = {}
    /\ now = 0
    /\ mig = [p \in Migrators |-> Goto(NewRun, "done")]
    /\ runs = <<>>
    /\ hist = NoHistory
    /\ ed = NoEditors
    /\ view = NoView

Edited(op) ==
    hist' = [hist EXCEPT !.op = op, !.edits = @ + 1, !.edited_after = Len(runs)]

\* a hub user removes at most one capability and changes at most one headcount
SeedSaveCapabilities ==
    /\ hist.edits < MaxEdits
    /\ \E h \in hubs :
         LET df == get_hub_capabilities(Store, h.hub_name) IN
         \E category \in {r.capability_category : r \in df} :
            LET category_df == {r \in df : r.capability_category = category}
                ids == {r.id : r \in category_df}
                loaded == [i \in ids |-> (CHOOSE r \in category_df : r.id = i).headcount]
            IN \E remove \in {S \in SUBSET ids : Cardinality(S) <= 1} :
               \E i \in ids, v \in HeadcountValues :
                  /\ remove # {} \/ v # loaded[i]
                  /\ SetStore(save_capability_changes(Store, category_df, remove,
                                  [loaded EXCEPT ![i] = v], h.hub_name, now))
    /\ Edited("save_capabilities")
    /\ UNCHANGED <<now, mig, runs, ed, view>>

\* a hub user ticks Remove for some clients and saves
SeedRemoveClients ==
    /\ hist.edits < MaxEdits
    /\ \E h \in hubs :
         LET filtered_df == get_client_metrics(Store, h.hub_name) IN
         \E remove \in SUBSET {r.id : r \in filtered_df} :
            /\ remove # {}
            /\ SetStore(save_client_changes(Store, filtered_df,
                            {[display_row(r) EXCEPT !.Delete = (r.id \in remove)]
                             : r \in filtered_df},
                            h.hub_name, now).s)
    /\ Edited("save_clients")
    /\ UNCHANGED <<now, mig, runs, ed, view>>

NextSeed == RunSetup \/ Tick \/ SeedSaveCapabilities \/ SeedRemoveClients

SpecSeed == InitSeed /\ [][NextSeed]_vars

\* the program was started once: the seeded store, nobody has edited yet
InitApp ==
    /\ tables = SeededStore.tables /\ columns = SeededStore.columns
    /\ hubs = SeededStore.hubs /\ users = SeededStore.users
    /\ hub_metrics = SeededStore.hub_metrics
    /\ hub_capabilities = SeededStore.hub_capabilities
    /\ client_metrics = SeededStore.client_metrics
    /\ people_metrics = SeededStore.people_metrics
    /\ now = 0
    /\ mig = [p \in Migrators |-> Goto(NewRun, "done")]
    /\ runs = <<>>
    /\ hist = NoHistory
    /\ ed = NoEditors
    /\ view = NoView

-----------------------------------------------------------------------------
(* Rendering the age of one timestamp.                                     *)

\* timestamps up to MaxAgeDays days old and around one and two years old, at
\* the first, the second and the last hour of the day, one day in the
\* future, missing and unparsable
TimestampInputs ==
    {[kind |-> "nan"], [kind |-> "bad"]}
      \cup {[kind |-> "ok", hour |-> now - 24 * d - h] :
                d \in ((0 - 1)..MaxAgeDays) \cup {364, 365, 729, 730}, h \in {0, 1, 23}}

\* one cell of a "Last Updated" column is rendered
RenderAge ==
    /\ \E t \in TimestampInputs, minute \in {0, 59} :
          view' = [page |-> "age", timestamp |-> t, clock |-> now, minute |-> minute,
                   outdated |-> is_outdated(t, now),
                   colour |-> color_by_days(t, now),
                   text |-> get_time_difference(t, now, minute)]
    /\ UNCHANGED <<store_vars, now, mig, runs, hist, ed>>

NextFresh == RenderAge \/ Tick

SpecFresh == InitApp /\ [][NextFresh]_vars

-----------------------------------------------------------------------------
(* Editors of one hub on the pages after login. The clock counts months     *)
(* here: CURRENT_TIMESTAMP is now and the current month is                  *)
(* month_periods[now + 1].                                                  *)

\* st.session_state.current_hub of both editors
current_hub == default_hubs[1]

\* counts typed into the three gender fields
GenderInputs == {<<0, 0, 0>>, <<3, 1, 0>>}

\* values typed into "Total Seats"
SeatValues == {76, 80}

\* The people page is rendered while the current month has no Employment
\* Type row: the script goes on to create the placeholders, one metric at a
\* time (lines 2589-2628)
OpenPeoplePage(e) ==
    /\ ed[e].pc = "idle"
    /\ Len(employment_df(Store, current_hub)) > 0
    /\ is_current_month_missing(Store, current_hub, now)
    /\ ed' = [ed EXCEPT ![e] = [pc |-> "auto_check",
                                metrics |-> employment_metric_names(Store, current_hub),
                                period |-> current_month_year(now)]]
    /\ hist' = [hist EXCEPT !.op = "open_people"]
    /\ UNCHANGED <<store_vars, now, mig, runs, view>>

\* SELECT id FROM people_metrics WHERE hub_id, metric_name, time_period,
\* metric_category
AutoCheck(e) ==
    /\ ed[e].pc = "auto_check"
    /\ ed' = [ed EXCEPT ![e] =
                [pc |-> "auto_insert", metrics |-> ed[e].metrics, period |-> ed[e].period,
                 existing |-> \E r \in people_metrics :
                                 /\ r.hub_id = hub_id_of(Store, current_hub)
                                 /\ r.metric_name = Head(ed[e].metrics)
                                 /\ r.time_period = ed[e].period
                                 /\ r.metric_category = "Employment Type"]]
    /\ hist' = [hist EXCEPT !.op = "auto_check"]
    /\ UNCHANGED <<store_vars, now, mig, runs, view>>

\* if not existing: INSERT the placeholder with value 0, commit
AutoInsert(e) ==
    /\ ed[e].pc = "auto_insert"
    /\ SetStore(IF ed[e].existing THEN Store
                ELSE insert_people_metric(Store, hub_id_of(Store, current_hub),
                                          Head(ed[e].metrics), 0, "Employment Type",
                                          ed[e].period, current_hub, now).s)
    /\ ed' = [ed EXCEPT ![e] =
                IF Tail(ed[e].metrics) = <<>> THEN [pc |-> "idle"]
                ELSE [pc |-> "auto_check", metrics |-> Tail(ed[e].metrics),
                      period |-> ed[e].period]]
    /\ hist' = [hist EXCEPT !.op = "auto_insert"]
    /\ UNCHANGED <<now, mig, runs, view>>

\* "Save Changes" of the Employment Type table with one cell edited
SavePeopleChanges(e) ==
    /\ ed[e].pc = "idle"
    /\ hist.edits < MaxEdits
    /\ ~is_current_month_missing(Store, current_hub, now)
    /\ LET periods == employment_time_periods(Store, current_hub)
           metrics == employment_metric_names(Store, current_hub)
       IN \E i \in 1..Len(periods), j \in 1..Len(metrics), v \in HeadcountValues :
             LET r == save_people_cell(Store, current_hub, periods[i], metrics[j], v, now)
             IN /\ r.s # Store
                /\ SetStore(r.s)
                /\ view' = [page |-> "people", ok |-> r.ok, period |-> periods[i]]
    /\ Edited("save_people")
    /\ UNCHANGED <<now, mig, runs, ed>>

\* the gender page is rendered and "Add New Time Period" was clicked: the
\* script has read the time periods
GenderLoad(e) ==
    /\ ed[e].pc = "idle"
    /\ hist.edits < MaxEdits
    /\ ed' = [ed EXCEPT ![e] = [pc |-> "gender_add",
                                time_periods |-> gender_time_periods(Store, current_hub)]]
    /\ hist' = [hist EXCEPT !.op = "gender_load"]
    /\ UNCHANGED <<store_vars, now, mig, runs, view>>

GenderAdd(e) ==
    /\ ed[e].pc = "gender_add"
    /\ LET r == add_gender_period(Store, current_hub, ed[e].time_periods, now)
       IN /\ SetStore(r.s)
          /\ view' = [page |-> "gender_add", ok |-> r.ok, added |-> r.s # Store]
    /\ ed' = [ed EXCEPT ![e] = [pc |-> "idle"]]
    /\ Edited("add_gender_period")
    /\ UNCHANGED <<now, mig, runs>>

\* "Save Gender Data" with the counts of the first row of the table, the
\* latest period, typed in or left as loaded
SaveGenderData(e) ==
    /\ ed[e].pc = "idle"
    /\ hist.edits < MaxEdits
    /\ LET table == gender_table(Store, current_hub)
       IN /\ Len(table) > 0
          /\ \E latest \in GenderInputs \cup {table[1].counts} :
               LET edited == [i \in 1..Len(table) |->
                                 IF i = 1 THEN latest ELSE table[i].counts]
                   r == save_gender_data(Store, current_hub, edited, now)
               IN /\ SetStore(r.s)
                  /\ view' = [page |-> "gender", ok |-> r.ok, latest |-> latest,
                              period |-> table[1].period]
    /\ Edited("save_gender")
    /\ UNCHANGED <<now, mig, runs, ed>>

\* "Save Initial Data" while the hub has no Gender row
InitGenderData(e) ==
    /\ ed[e].pc = "idle"
    /\ hist.edits < MaxEdits
    /\ Len(gender_table(Store, current_hub)) = 0
    /\ \E counts \in GenderInputs :
          LET r == init_gender_data(Store, current_hub, counts, now)
          IN /\ SetStore(r.s)
             /\ view' = [page |-> "gender", ok |-> r.ok, latest |-> counts,
                         period |-> current_month_year(now)]
    /\ Edited("init_gender")
    /\ UNCHANGED <<now, mig, runs, ed>>

\* the hub metrics page is rendered and "Update Hub Metrics" submitted
SubmitHubMetrics(e) ==
    /\ ed[e].pc = "idle"
    /\ hist.edits < MaxEdits
    /\ \E row \in get_hub_metrics(Store, current_hub), total_seats \in SeatValues :
          LET metrics_data == submitted_metrics_data(Store, current_hub, row, total_seats, 0, {})
              r == update_hub_metrics(Store, metrics_data, now)
          IN /\ SetStore(r.s)
             /\ view' = [page |-> "hub_metrics", ok |-> r.ok,
                         total_headcount |-> metrics_data.total_headcount]
    /\ Edited("submit_hub_metrics")
    /\ UNCHANGED <<now, mig, runs, ed>>

\* the people page and the hub metrics page
NextPeople ==
    \E e \in Editors :
          \/ OpenPeoplePage(e) \/ AutoCheck(e) \/ AutoInsert(e) \/ SavePeopleChanges(e)
          \/ SubmitHubMetrics(e)

SpecPeople == InitApp /\ [][NextPeople]_vars

\* the gender table of the people page
NextGender ==
    \/ Tick
    \/ \E e \in Editors :
          \/ GenderLoad(e) \/ GenderAdd(e) \/ SaveGenderData(e) \/ InitGenderData(e)

SpecGender == InitApp /\ [][NextGender]_vars

-----------------------------------------------------------------------------
(* The capabilities page: the "Add Capability" form and the category        *)
(* tables (lines 1780-1990).                                               *)

\* names typed into "Enter New Service Name": one that is seeded for the
\* hub and one that is not
CapabilityNames == {"Commerce Platforms", "Staffing"}

\* "Add Capability" is submitted: SELECT id FROM hub_capabilities WHERE
\* hub_id = ? AND capability_name = ?
AddCapabilityCheck(e) ==
    /\ ed[e].pc = "idle"
    /\ hist.edits < MaxEdits
    /\ get_hub_capabilities(Store, current_hub) # {}
    /\ \E name \in CapabilityNames, headcount \in HeadcountValues :
          ed' = [ed EXCEPT ![e] =
                   [pc |-> "cap_insert", name |-> name, headcount |-> headcount,
                    category |->
                        LET existing_categories ==
                                {r.capability_category :
                                    r \in get_hub_capabilities(Store, current_hub)}
                        IN CHOOSE c \in existing_categories :
                              \A d \in existing_categories : TextRank(c) <= TextRank(d),
                    existing |-> \E r \in hub_capabilities :
                                    /\ r.hub_id = hub_id_of(Store, current_hub)
                                    /\ r.capability_name = name]]
    /\ Edited("add_capability")
    /\ UNCHANGED <<store_vars, now, mig, runs, view>>

\* the rest of the handler: the error message, or the INSERT and the commit
AddCapabilityInsert(e) ==
    /\ ed[e].pc = "cap_insert"
    /\ LET r == IF ed[e].existing THEN Failed(Store)
                ELSE insert_capability(Store, hub_id_of(Store, current_hub), ed[e].name,
                                       ed[e].category, ed[e].headcount, current_hub, now)
       IN /\ SetStore(r.s)
          /\ view' = [page |-> "capabilities", name |-> ed[e].name,
                      message |-> IF ed[e].existing THEN "already exists"
                                  ELSE IF r.ok THEN "added" ELSE "error adding capability"]
    /\ ed' = [ed EXCEPT ![e] = [pc |-> "idle"]]
    /\ hist' = [hist EXCEPT !.op = "add_capability_done"]
    /\ UNCHANGED <<now, mig, runs>>

NextCaps ==
    \/ SeedSaveCapabilities
    \/ \E e \in Editors : AddCapabilityCheck(e) \/ AddCapabilityInsert(e)

SpecCaps == InitApp /\ [][NextCaps]_vars

-----------------------------------------------------------------------------
(* The client relationships page (lines 2005-2451) and update_client_metric. *)

\* names typed into "Client Name": one that is seeded and one that is not
ClientNames == {"Client 1", "Acme"}

\* the form of "+ Add New Client" with its defaults and one service selected
new_client_data(s, hub_name, client_name, service) ==
    [hub_id |-> hub_id_of(s, hub_name), client_name |-> client_name,
     engagement_status |-> "Active", commercial_model |-> "FTE",
     capability_category |-> hub_capability_mapping(hub_name),
     capability_name |-> JsonList(<<service>>),
     relationship_duration |-> 0, scope_summary |-> "", employee_count |-> 0,
     updated_by |-> hub_name]

\* "Add Client" is submitted with a name and a service of the hub
AddClient(e) ==
    /\ hist.edits < MaxEdits
    /\ \E client_name \in ClientNames :
       \E c \in {x \in get_hub_capabilities(Store, current_hub) :
                   \A y \in get_hub_capabilities(Store, current_hub) : x.id <= y.id} :
          LET r == add_client_metric(Store, new_client_data(Store, current_hub, client_name,
                                                            c.capability_name), now)
          IN /\ SetStore(r.s)
             /\ view' = [page |-> "clients", op |-> "add", name |-> client_name,
                         id |-> NULL, ok |-> r.ok]
    /\ Edited("add_client")
    /\ UNCHANGED <<now, mig, runs, ed>>

\* update_client_metric is called for a stored row with a new name
UpdateClientMetric(e) ==
    /\ hist.edits < MaxEdits
    /\ \E row \in get_client_metrics(Store, current_hub), client_name \in ClientNames :
          LET r == update_client_metric(Store,
                       [id |-> row.id, client_name |-> client_name,
                        engagement_status |-> row.engagement_status,
                        commercial_model |-> row.commercial_model,
                        capability_category |-> row.capability_category,
                        capability_name |-> row.capability_name,
                        relationship_duration |-> row.relationship_duration,
                        scope_summary |-> row.scope_summary,
                        employee_count |-> row.employee_count,
                        updated_by |-> current_hub], now)
          IN /\ client_name # row.client_name
             /\ SetStore(r.s)
             /\ view' = [page |-> "clients", op |-> "update", name |-> client_name,
                         id |-> row.id, ok |-> r.ok]
    /\ Edited("update_client")
    /\ UNCHANGED <<now, mig, runs, ed>>

\* "Save Client Changes" after the name of one row of the table was edited
SaveClientChanges(e) ==
    /\ hist.edits < MaxEdits
    /\ LET filtered_df == get_client_metrics(Store, current_hub)
       IN \E row \in filtered_df, client_name \in ClientNames :
             LET edited == {IF r.id = row.id
                            THEN [display_row(r) EXCEPT !.client_name = client_name]
                            ELSE display_row(r) : r \in filtered_df}
                 r == save_client_changes(Store, filtered_df, edited, current_hub, now)
             IN /\ client_name # row.client_name
                /\ SetStore(r.s)
                /\ view' = [page |-> "clients", op |-> "save", name |-> client_name,
                            id |-> row.id, ok |-> r.errors = 0]
    /\ Edited("save_clients")
    /\ UNCHANGED <<now, mig, runs, ed>>

NextClients ==
    \/ Tick
    \/ \E e \in Editors : AddClient(e) \/ UpdateClientMetric(e) \/ SaveClientChanges(e)

SpecClients == InitApp /\ [][NextClients]_vars

-----------------------------------------------------------------------------
(* Calls of the repository functions (lines 1036-1293) on rows of the hub.  *)


CallUpdateHubMetrics ==
    /\ hist.edits < MaxEdits
    /\ \E row \in get_hub_metrics(Store, current_hub) :
       \E total_seats \in SeatValues \cup {row.total_seats} :
       \E location_headcounts \in {JsonDict({<<"Gurugram", 4>>}), row.location_headcounts} :
       \E certifications \in {JsonDict({<<"AWS", 1>>}), row.certifications} :
          LET metrics_data ==
                  [id |-> row.id, total_headcount |-> row.total_headcount,
                   total_seats |-> total_seats, total_clients |-> row.total_clients,
                   services_offered |-> row.services_offered,
                   campus_type |-> row.campus_type, sez_status |-> row.sez_status,
                   location |-> row.location, location_headcounts |-> location_headcounts,
                   certifications |-> certifications,
                   coverage_hours |-> row.coverage_hours,
                   transport_facilities |-> row.transport_facilities,
                   updated_by |-> current_hub]
              r == update_hub_metrics(Store, metrics_data, now)
          IN /\ SetStore(r.s)
             /\ view' = [page |-> "repo", op |-> "update_hub_metrics", id |-> row.id,
                         updated_by |-> current_hub, ok |-> r.ok]
    /\ Edited("update_hub_metrics")
    /\ UNCHANGED <<now, mig, runs, ed>>

CallUpdateHubCapability ==
    /\ hist.edits < MaxEdits
    /\ \E row \in get_hub_capabilities(Store, current_hub), headcount \in HeadcountValues :
          LET r == update_hub_capability(Store, [id |-> row.id, headcount |-> headcount,
                                                 updated_by |-> current_hub], now)
          IN /\ SetStore(r.s)
             /\ view' = [page |-> "repo", op |-> "update_hub_capability", id |-> row.id,
                         updated_by |-> current_hub, ok |-> r.ok]
    /\ Edited("update_hub_capability")
    /\ UNCHANGED <<now, mig, runs, ed>>

CallUpdateClientMetric ==
    /\ hist.edits < MaxEdits
    /\ \E row \in get_client_metrics(Store, current_hub) :
       \E status \in {"Active", "Inactive"} :
          LET r == update_client_metric(Store,
                       [id |-> row.id, client_name |-> row.client_name,
                        engagement_status |-> status,
                        commercial_model |-> row.commercial_model,
                        capability_category |-> row.capability_category,
                        capability_name |-> row.capability_name,
                        relationship_duration |-> row.relationship_duration,
                        scope_summary |-> row.scope_summary,
                        employee_count |-> row.employee_count,
                        updated_by |-> current_hub], now)
          IN /\ SetStore(r.s)
             /\ view' = [page |-> "repo", op |-> "update_client_metric", id |-> row.id,
                         updated_by |-> current_hub, ok |-> r.ok]
    /\ Edited("update_client_metric")
    /\ UNCHANGED <<now, mig, runs, ed>>

CallUpdatePeopleMetric ==
    /\ hist.edits < MaxEdits
    /\ \E row \in {p \in people_metrics : /\ p.hub_id = hub_id_of(Store, current_hub)
                                          /\ p.metric_category = "Employment Type"} :
       \E value \in HeadcountValues :
          LET r == update_people_metric(Store, [id |-> row.id, metric_value |-> value,
                                                updated_by |-> current_hub], now)
          IN /\ SetStore(r.s)
             /\ view' = [page |-> "repo", op |-> "update_people_metric", id |-> row.id,
                         updated_by |-> current_hub, ok |-> r.ok]
    /\ Edited("update_people_metric")
    /\ UNCHANGED <<now, mig, runs, ed>>

CallAddClientMetric ==
    /\ hist.edits < MaxEdits
    /\ \E client_name \in ClientNames :
          LET r == add_client_metric(Store, new_client_data(Store, current_hub, client_name,
                                                            "Commerce Platforms"), now)
          IN /\ SetStore(r.s)
             /\ view' = [page |-> "repo", op |-> "add_client_metric",
                         id |-> NextId(client_metrics),
                         updated_by |-> current_hub, ok |-> r.ok]
    /\ Edited("add_client_metric")
    /\ UNCHANGED <<now, mig, runs, ed>>

NextRepo ==
    \/ Tick
    \/ CallUpdateHubMetrics \/ CallUpdateHubCapability \/ CallUpdateClientMetric
    \/ CallUpdatePeopleMetric \/ CallAddClientMetric

SpecRepo == InitApp /\ [][NextRepo]_vars

-----------------------------------------------------------------------------
(* The derived totals as the dashboard and the hub metrics page show them.  *)

\* "Hub Overview" of the dashboard: the Core Metrics table is filled from
\* the row of get_hub_metrics (lines 687-694)
ShowDashboardView(e) ==
    /\ ed[e].pc = "idle"
    /\ \E row \in get_hub_metrics(Store, current_hub) :
          view' = [page |-> "dashboard", total_headcount |-> row.total_headcount,
                   total_clients |-> row.total_clients,
                   services_offered |-> row.services_offered]
    /\ hist' = [hist EXCEPT !.op = "show_dashboard"]
    /\ UNCHANGED <<store_vars, now, mig, runs, ed>>

\* "Key Metrics Overview" of the hub metrics page: the three tiles are
\* computed from the other tables (lines 1420-1473)
ShowHubMetricsView(e) ==
    /\ ed[e].pc = "idle"
    /\ get_hub_metrics(Store, current_hub) # {}
    /\ view' = [page |-> "key_metrics",
                total_headcount |-> total_headcount_calculated(Store, current_hub).total,
                total_clients |-> Cardinality(get_client_metrics(Store, current_hub)),
                services_offered |-> Cardinality(get_hub_capabilities(Store, current_hub))]
    /\ hist' = [hist EXCEPT !.op = "show_hub_metrics"]
    /\ UNCHANGED <<store_vars, now, mig, runs, ed>>

NextTotals ==
    \/ SeedSaveCapabilities \/ SeedRemoveClients
    \/ \E e \in Editors :
          \/ AddClient(e) \/ SubmitHubMetrics(e)
          \/ ShowDashboardView(e) \/ ShowHubMetricsView(e)

SpecTotals == InitApp /\ [][NextTotals]_vars

-----------------------------------------------------------------------------
(* The program is started at a later time on a store that an earlier        *)
(* version left behind; the pages are used after setup_database has         *)
(* completed (main, lines 3783-3806).                                      *)

InitMigrated ==
    /\ \E r \in {setup_database(LegacyStore(m), 1) : m \in MissingSets(MaxMissing)} :
          /\ r.l.pc = "done"
          /\ tables = r.s.tables /\ columns = r.s.columns /\ hubs = r.s.hubs
          /\ users = r.s.users /\ hub_metrics = r.s.hub_metrics
          /\ hub_capabilities = r.s.hub_capabilities
          /\ client_metrics = r.s.client_metrics /\ people_metrics = r.s.people_metrics
    /\ now = 1
    /\ mig = [p \in Migrators |-> Goto(NewRun, "done")]
    /\ runs = <<>>
    /\ hist = NoHistory
    /\ ed = NoEditors
    /\ view = NoView

\* every add and update of the pages, and further starts of the program
NextMigrated ==
    \/ RunSetup
    \/ CallUpdateHubMetrics \/ CallUpdateHubCapability \/ CallUpdateClientMetric
    \/ CallUpdatePeopleMetric \/ CallAddClientMetric
    \/ \E e \in Editors : AddCapabilityCheck(e) \/ AddCapabilityInsert(e)

SpecMigrated == InitMigrated /\ [][NextMigrated]_vars

-----------------------------------------------------------------------------
(* Credentials: the login screen (lines 423-447, 1295-1316) and the "Add     *)
(* New User" form of the admin tools (lines 3641-3692). view holds the      *)
(* session state of the browser.                                           *)

\* login_user(username, password): the session after the call
login_user(s, session, username, password) ==
    LET result == {u \in s.users : /\ u.username = username
                                  /\ u.password_hash = sha256(password)}
    IN IF result # {}
       THEN [ok |-> TRUE, logged_in |-> TRUE,
             current_hub |-> (CHOOSE u \in result : TRUE).hub_name,
             is_admin |-> (CHOOSE u \in result : TRUE).is_admin # 0]
       ELSE [ok |-> FALSE, logged_in |-> session.logged_in,
             current_hub |-> session.current_hub, is_admin |-> session.is_admin]

\* "Login" is clicked on the login screen, shown while nobody is logged in
LoginUser ==
    /\ Len(runs) >= 1
    /\ view.page \in {"none", "login"}
    /\ \E username \in {u.username : u \in users} \cup {"ops"} :
       \E password \in {default_password(username), admin_password, <<username, "1234">>,
                        <<"ops", "1">>} :
          LET r == login_user(Store, [logged_in |-> FALSE, current_hub |-> NullText,
                                      is_admin |-> FALSE], username, password)
          IN view' = [page |-> IF r.ok THEN "main" ELSE "login",
                      username |-> username, password |-> password, ok |-> r.ok,
                      logged_in |-> r.logged_in, current_hub |-> r.current_hub,
                      is_admin |-> r.is_admin]
    /\ hist' = [hist EXCEPT !.op = "login"]
    /\ UNCHANGED <<store_vars, now, mig, runs, ed>>

\* "Logout" is clicked: logout_user()
LogoutUser ==
    /\ view.page \in {"main", "admin"}
    /\ view' = [page |-> "login", username |-> view.username, password |-> view.password,
                ok |-> FALSE, logged_in |-> FALSE, current_hub |-> NullText,
                is_admin |-> FALSE]
    /\ hist' = [hist EXCEPT !.op = "logout"]
    /\ UNCHANGED <<store_vars, now, mig, runs, ed>>

\* an administrator submits "Add User"; an empty text field is "" or <<>>
AddUser ==
    /\ view.page \in {"main", "admin"}
    /\ view.is_admin
    /\ hist.edits < MaxEdits
    /\ \E username \in {"", "admin", "ops", "qa"} :
       \E password \in {<<>>, <<"ops", "1">>}, confirm_password \in {<<>>, <<"ops", "1">>} :
       \E hub_name \in {h.hub_name : h \in hubs} \cup {"ALL"}, is_admin \in BOOLEAN :
          LET valid == username # "" /\ password # <<>> /\ password = confirm_password
              r == IF valid
                   THEN insert_user(Store, username, password, hub_name,
                                    IF is_admin THEN 1 ELSE 0, now)
                   ELSE [s |-> Store, raised |-> FALSE]
          IN /\ SetStore(r.s)
             /\ view' = [view EXCEPT !.page = "admin", !.username = username,
                                     !.password = password,
                                     !.ok = valid /\ ~r.raised]
    /\ Edited("add_user")
    /\ UNCHANGED <<now, mig, runs, ed>>

NextUsers == RunSetup \/ LoginUser \/ LogoutUser \/ AddUser

SpecUsers == InitSeed /\ [][NextUsers]_vars

-----------------------------------------------------------------------------
(* The hub metrics form (lines 1476-1764): locations, location headcounts   *)
(* and certifications are kept in the session state, edited by reruns of   *)
(* the page and written by "Update Hub Metrics". A dict is a function from  *)
(* its keys; the stored JSON object is the set of its members.             *)

\* texts typed into a name field
TextInputs == {" ", " Pune "}

\* str.strip() on the texts that occur
strip(text) ==
    CASE text = " Pune " -> "Pune"
      [] text = " " -> ""
      [] OTHER -> text

\* ", ".join(updated_locations)
RECURSIVE join_locations(_)
join_locations(locs) ==
    IF locs = <<>> THEN ""
    ELSE IF Len(locs) = 1 THEN locs[1]
    ELSE locs[1] \o ", " \o join_locations(Tail(locs))

\* [loc.strip() for loc in location.split(',') if loc.strip()]: the parts are
\* found as the list of non-blank texts whose join the stored string is
split_locations(location) ==
    LET texts == {t \in TextInputs \cup {"Gurugram", "Pune"} : strip(t) # ""}
        lists == UNION {[1..n -> texts] : n \in 0..MaxLocations}
        parts == CHOOSE l \in lists : join_locations(l) = location
    IN [i \in 1..Len(parts) |-> strip(parts[i])]

\* json.dumps(d) of a dict with text keys and integer values
json_dumps(d) == JsonDict({<<k, d[k]>> : k \in DOMAIN d})

\* json.loads without the members whose value is 0
json_loads_nonzero(text) ==
    [k \in {p[1] : p \in {q \in text.items : q[2] # 0}} |->
        (CHOOSE p \in text.items : p[1] = k)[2]]

\* json.loads(text) of a stored object
json_loads(text) ==
    [k \in {p[1] : p \in text.items} |-> (CHOOSE p \in text.items : p[1] = k)[2]]

\* d[k] = v and del d[k]
dict_set(d, k, v) == [j \in DOMAIN d \cup {k} |-> IF j = k THEN v ELSE d[j]]
dict_del(d, k) == [j \in DOMAIN d \ {k} |-> d[j]]

\* list(d.items())
RECURSIVE dict_items(_)
dict_items(d) ==
    IF DOMAIN d = {} THEN <<>>
    ELSE LET k == CHOOSE j \in DOMAIN d : TRUE
         IN <<<<k, d[k]>>>> \o dict_items(dict_del(d, k))

\* {cert: count for cert, count in certifications if cert.strip()}
RECURSIVE certifications_dict(_)
certifications_dict(certifications) ==
    IF certifications = <<>> THEN [k \in {} |-> 0]
    ELSE LET n == Len(certifications)
             rest == certifications_dict(SubSeq(certifications, 1, n - 1))
         IN IF strip(certifications[n][1]) # ""
            THEN dict_set(rest, certifications[n][1], certifications[n][2])
            ELSE rest

\* the loop over the locations in one run of the page (lines 1554-1587):
\* widgets[i] is what the text field and the number field of row i hold
RECURSIVE location_loop(_, _, _, _)
location_loop(locations, location_headcounts, widgets, i) ==
    IF i > Len(locations)
    THEN [locations |-> locations, location_headcounts |-> location_headcounts]
    ELSE LET location == locations[i]
             new_location == widgets[i][1]
             new_headcount == widgets[i][2]
             h1 == IF location # "" THEN dict_set(location_headcounts, location, new_headcount)
                   ELSE location_headcounts
             h2 == IF new_location # "" /\ new_location # location
                   THEN LET h == dict_set(h1, new_location, new_headcount)
                        IN IF location # "" /\ location \in DOMAIN h
                           THEN dict_del(h, location) ELSE h
                   ELSE h1
         IN location_loop([locations EXCEPT ![i] = new_location], h2, widgets, i + 1)

\* what the fields of the location rows hold when the user has typed nothing
\* since the last run
shown_widgets(locations, location_headcounts) ==
    [i \in 1..Len(locations) |->
        <<locations[i], IF locations[i] \in DOMAIN location_headcounts
                        THEN location_headcounts[locations[i]] ELSE 0>>]

\* the page is opened in a new session: the session state is initialised from
\* the row (lines 1485-1512); the loop over the location rows is part of the
\* runs that follow
OpenHubMetricsForm(e) ==
    /\ ed[e].pc = "idle"
    /\ \E row \in get_hub_metrics(Store, current_hub) :
          LET locations == IF row.location # NullText THEN split_locations(row.location)
                           ELSE <<>>
              location_headcounts == IF row.location_headcounts # JsonNull
                                     THEN json_loads(row.location_headcounts)
                                     ELSE [k \in {} |-> 0]
              certifications == IF row.certifications # JsonNull
                                THEN dict_items(json_loads(row.certifications))
                                ELSE <<>>
          IN ed' = [ed EXCEPT ![e] = [pc |-> "form", row_id |-> row.id,
                                      locations |-> locations,
                                      location_headcounts |-> location_headcounts,
                                      certifications |-> certifications]]
    /\ hist' = [hist EXCEPT !.op = "open_form"]
    /\ UNCHANGED <<store_vars, now, mig, runs, view>>

\* the browser session ends; the next visit starts with an empty session state
NewSession(e) ==
    /\ ed[e].pc = "form"
    /\ ed' = [ed EXCEPT ![e] = [pc |-> "idle"]]
    /\ hist' = [hist EXCEPT !.op = "new_session"]
    /\ UNCHANGED <<store_vars, now, mig, runs, view>>

\* "Add Location" (lines 1549-1551)
AddLocation(e) ==
    /\ ed[e].pc = "form"
    /\ Len(ed[e].locations) < MaxLocations
    /\ ed' = [ed EXCEPT ![e].locations = Append(@, "")]
    /\ hist' = [hist EXCEPT !.op = "rerun"]
    /\ UNCHANGED <<store_vars, now, mig, runs, view>>

\* the user types into the fields of one location row and the page runs
EditLocation(e) ==
    /\ ed[e].pc = "form"
    /\ \E i \in 1..Len(ed[e].locations) :
       \E new_location \in TextInputs \cup {ed[e].locations[i]} :
       \E new_headcount \in HeadcountValues :
          LET shown == shown_widgets(ed[e].locations, ed[e].location_headcounts)
              r == location_loop(ed[e].locations, ed[e].location_headcounts,
                                 [shown EXCEPT ![i] = <<new_location, new_headcount>>], 1)
          IN ed' = [ed EXCEPT ![e].locations = r.locations,
                              ![e].location_headcounts = r.location_headcounts]
    /\ hist' = [hist EXCEPT !.op = "rerun"]
    /\ UNCHANGED <<store_vars, now, mig, runs, view>>

\* the remove button of a location row (lines 1582-1587)
RemoveLocation(e) ==
    /\ ed[e].pc = "form"
    /\ \E i \in 1..Len(ed[e].locations) :
          LET removed_location == ed[e].locations[i]
          IN ed' = [ed EXCEPT
                      ![e].locations = SubSeq(@, 1, i - 1) \o SubSeq(@, i + 1, Len(@)),
                      ![e].location_headcounts =
                          IF removed_location \in DOMAIN @ THEN dict_del(@, removed_location)
                          ELSE @]
    /\ hist' = [hist EXCEPT !.op = "rerun"]
    /\ UNCHANGED <<store_vars, now, mig, runs, view>>

\* "Add Certification" (lines 1599-1601)
AddCertification(e) ==
    /\ ed[e].pc = "form"
    /\ Len(ed[e].certifications) < MaxCertifications
    /\ ed' = [ed EXCEPT ![e].certifications = Append(@, <<"", 0>>)]
    /\ hist' = [hist EXCEPT !.op = "rerun"]
    /\ UNCHANGED <<store_vars, now, mig, runs, view>>

\* the user types into the fields of one certification row, or removes the
\* row (lines 1604-1623)
EditCertification(e) ==
    /\ ed[e].pc = "form"
    /\ \E i \in 1..Len(ed[e].certifications) :
          \/ \E new_cert \in {" ", "AWS"}, new_count \in HeadcountValues :
                ed' = [ed EXCEPT ![e].certifications[i] = <<new_cert, new_count>>]
          \/ ed' = [ed EXCEPT ![e].certifications =
                                 SubSeq(@, 1, i - 1) \o SubSeq(@, i + 1, Len(@))]
    /\ hist' = [hist EXCEPT !.op = "rerun"]
    /\ UNCHANGED <<store_vars, now, mig, runs, view>>

\* "Update Hub Metrics" is submitted (lines 1713-1762)
SubmitHubMetricsForm(e) ==
    /\ ed[e].pc = "form"
    /\ hist.edits < MaxEdits
    /\ \E row \in get_hub_metrics(Store, current_hub) :
          LET s == location_loop(ed[e].locations, ed[e].location_headcounts,
                                 shown_widgets(ed[e].locations, ed[e].location_headcounts), 1)
              updated_locations ==
                  SelectSeq(s.locations, LAMBDA loc : strip(loc) # "")
              updated_location_headcounts ==
                  [k \in {j \in DOMAIN s.location_headcounts : strip(j) # ""} |->
                      s.location_headcounts[k]]
              updated_certifications == certifications_dict(ed[e].certifications)
              metrics_data ==
                  [submitted_metrics_data(Store, current_hub, row, row.total_seats, 0, {})
                      EXCEPT !.location = join_locations(updated_locations),
                             !.location_headcounts = json_dumps(updated_location_headcounts),
                             !.certifications = json_dumps(updated_certifications)]
              r == update_hub_metrics(Store, metrics_data, now)
          IN /\ row.id = ed[e].row_id
             /\ SetStore(r.s)
             /\ ed' = [ed EXCEPT ![e].locations = s.locations,
                                 ![e].location_headcounts = s.location_headcounts]
             /\ view' = [page |-> "hub_metrics_form", ok |-> r.ok,
                         location_headcounts |-> updated_location_headcounts,
                         certifications |-> updated_certifications]
    /\ Edited("submit_form")
    /\ UNCHANGED <<now, mig, runs>>

\* one browser uses the form, in one session after the other
NextForm ==
    \E e \in {1} :
       \/ OpenHubMetricsForm(e) \/ NewSession(e)
       \/ AddLocation(e) \/ EditLocation(e) \/ RemoveLocation(e)
       \/ AddCertification(e) \/ EditCertification(e)
       \/ SubmitHubMetricsForm(e)

SpecForm == InitApp /\ [][NextForm]_vars

-----------------------------------------------------------------------------
(* The staleness warnings of the dashboard and its "Last Update Summary".  *)

\* the check above each of "Core Metrics", "Locations" and "Certifications"
\* (lines 681-685, 752-756, 793-797): a timestamp that is NaN is not parsed
\* and leaves the flag False
metrics_outdated(timestamp_str, clock) ==
    IF timestamp_str.kind = "nan" THEN FALSE
    ELSE diff_days(timestamp_str, clock) > 30

\* one hub of the dashboard is rendered; the sub-group's timestamp column
\* holds a CURRENT_TIMESTAMP text or NULL
ShowDashboardFreshness ==
    /\ \E group \in {"Core Metrics", "Locations", "Certifications"},
          t \in {x \in TimestampInputs : x.kind # "bad"} :
          view' = [page |-> "dashboard_freshness", group |-> group, timestamp |-> t,
                   clock |-> now,
                   warning |-> metrics_outdated(t, now),
                   status |-> IF is_outdated(t, now) THEN "Outdated" ELSE "Current"]
    /\ UNCHANGED <<store_vars, now, mig, runs, hist, ed>>

NextDashboard == ShowDashboardFreshness \/ Tick

SpecDashboard == InitApp /\ [][NextDashboard]_vars

-----------------------------------------------------------------------------
(* main and show_main_interface: what a script run renders for a session   *)
(* (lines 1318-1380, 3783-3803), and the hub lookup of the views.          *)

\* st.session_state of the browser the view belongs to
session_state ==
    IF view.page = "none"
    THEN [logged_in |-> FALSE, current_hub |-> NullText, is_admin |-> FALSE]
    ELSE [logged_in |-> view.logged_in, current_hub |-> view.current_hub,
          is_admin |-> view.is_admin]

tab_options(session) ==
    IF session.is_admin THEN {"Dashboard", "Admin Tools"}
    ELSE {"Dashboard", "Hub Metrics", "Capabilities", "Client Relationships",
          "People Analytics"}

view_mapping(selected_tab) ==
    CASE selected_tab = "Dashboard" -> "dashboard"
      [] selected_tab = "Hub Metrics" -> "hub_metrics"
      [] selected_tab = "Capabilities" -> "capabilities"
      [] selected_tab = "Client Relationships" -> "client_relationships"
      [] OTHER -> "people_analytics"

\* show_main_interface taking the administrator branch for every session
show_main_interface_admin_branch(session, selected_tab) ==
    IF selected_tab = "Dashboard" THEN "dashboard" ELSE "admin_tools"

\* the view function show_main_interface calls
show_main_interface(session, selected_tab) ==
    IF session.is_admin
    THEN (IF selected_tab = "Dashboard" THEN "dashboard" ELSE "admin_tools")
    ELSE view_mapping(selected_tab)

\* main() after setup_database
main(session, selected_tab) ==
    IF ~session.logged_in THEN "login_screen"
    ELSE show_main_interface(session, selected_tab)

\* show_capabilities_view up to its hub lookup of lines 1795-1801:
\* cursor.fetchone()[0] raises TypeError when no hubs row has the name
show_capabilities_view(s, session) ==
    IF get_hub_capabilities(s, session.current_hub) = {} THEN "info"
    ELSE IF session.is_admin /\ session.current_hub = "ALL" THEN "ok"
    ELSE IF hub_id_of(s, session.current_hub) = NULL THEN "raised"
    ELSE "ok"

\* the hub lookup of handle_gender_category (lines 3012-3024): st.error and
\* return when no hubs row has the name
handle_gender_category(s, hub_name) ==
    IF hub_id_of(s, hub_name) = NULL THEN "error" ELSE "ok"

\* one script run of a browser session with a tab of the radio selected
ShowMainInterface ==
    /\ Len(runs) >= 1
    /\ \E selected_tab \in tab_options(session_state) :
          LET rendered == main(session_state, selected_tab)
          IN view' = [page |-> IF session_state.logged_in THEN view.page ELSE "login",
                      username |-> IF view.page = "none" THEN "" ELSE view.username,
                      password |-> IF view.page = "none" THEN <<>> ELSE view.password,
                      ok |-> view.page # "none" /\ view.ok,
                      logged_in |-> session_state.logged_in,
                      current_hub |-> session_state.current_hub,
                      is_admin |-> session_state.is_admin,
                      rendered |-> rendered,
                      outcome |->
                         CASE rendered = "capabilities" ->
                                 show_capabilities_view(Store, session_state)
                           [] rendered = "people_analytics" ->
                                 handle_gender_category(Store, session_state.current_hub)
                           [] OTHER -> "ok"]
    /\ hist' = [hist EXCEPT !.op = "render"]
    /\ UNCHANGED <<store_vars, now, mig, runs, ed>>

NextSession == RunSetup \/ LoginUser \/ LogoutUser \/ AddUser \/ ShowMainInterface

SpecSession == InitSeed /\ [][NextSession]_vars

-----------------------------------------------------------------------------
(* The Staffing category of the people page (lines 3304-3565).             *)

staffing_metrics == <<"Bench Count">>

\* time periods of the Staffing rows, newest first (lines 3329-3334)
staffing_time_periods(s, hub_name) ==
    sorted_periods(unique(column(where(get_people_metrics(s, hub_name),
                                       "metric_category", "Staffing"), "time_period")), TRUE)

\* the rows of the staffing table editor: per period the bench count and the
\* id of the row it was read from (NULL when there is none)
staffing_table(s, hub_name) ==
    LET staffing_df == where(get_people_metrics(s, hub_name), "metric_category", "Staffing")
        time_periods == staffing_time_periods(s, hub_name)
        value_row(period) ==
            where(where(staffing_df, "metric_name", staffing_metrics[1]), "time_period", period)
    IN [i \in 1..Len(time_periods) |->
           [period |-> time_periods[i],
            value |-> IF value_row(time_periods[i]) # <<>>
                      THEN value_row(time_periods[i])[1].metric_value ELSE 0,
            id |-> IF value_row(time_periods[i]) # <<>>
                   THEN value_row(time_periods[i])[1].id ELSE NULL]]

\* "Add New Time Period" (lines 3337-3364)
add_staffing_period(s, hub_name, clock) ==
    LET time_periods == staffing_time_periods(s, hub_name)
        new_period == current_month_year(clock)
    IN IF \A i \in 1..Len(time_periods) : time_periods[i] # new_period
       THEN insert_people_metrics(s, hub_id_of(s, hub_name), staffing_metrics, <<0>>,
                                  "Staffing", new_period, hub_name, clock)
       ELSE Ok(s)

\* UPDATE hub_metrics SET bench_count, updated_at, updated_by WHERE hub_id = ?
\* (lines 3497-3503, 3550-3556)
update_bench_count(s, hub_id, bench_count, updated_by, ts) ==
    [s EXCEPT !.hub_metrics =
        {IF r.hub_id = hub_id
         THEN [r EXCEPT !.bench_count = bench_count, !.updated_at = ts,
                        !.updated_by = updated_by]
         ELSE r : r \in @}]

\* the loop of "Save Staffing Data" over the rows of the edited table
\* (lines 3441-3480); ok turns FALSE when a statement failed
RECURSIVE save_staffing_rows(_, _, _, _, _, _, _)
save_staffing_rows(s, table, edited, i, hub_name, ts, ok) ==
    IF i > Len(table) THEN [s |-> s, ok |-> ok]
    ELSE LET metric_id == table[i].id
             r == IF metric_id # NULL /\ metric_id # 0
                  THEN update_people_metric(s, [id |-> metric_id,
                                                metric_value |-> edited[i],
                                                updated_by |-> hub_name], ts)
                  ELSE insert_people_metric(s, hub_id_of(s, hub_name), staffing_metrics[1],
                                            edited[i], "Staffing", table[i].period,
                                            hub_name, ts)
         IN save_staffing_rows(r.s, table, edited, i + 1, hub_name, ts, ok /\ r.ok)

\* "Save Staffing Data" with the bench count of the last row of the table
\* mirrored into hub_metrics
save_staffing_data_last_row(s, hub_name, edited, ts) ==
    LET table == staffing_table(s, hub_name)
        saved == save_staffing_rows(s, table, edited, 1, hub_name, ts, TRUE)
    IN IF saved.ok /\ Len(edited) > 0
       THEN Ok(update_bench_count(saved.s, hub_id_of(s, hub_name), edited[Len(edited)],
                                  hub_name, ts))
       ELSE saved

\* "Save Staffing Data" (lines 3437-3512): edited holds the bench count of
\* each row of the table; the first row is the most recent period
save_staffing_data(s, hub_name, edited, ts) ==
    LET table == staffing_table(s, hub_name)
        saved == save_staffing_rows(s, table, edited, 1, hub_name, ts, TRUE)
    IN IF saved.ok /\ Len(edited) > 0
       THEN Ok(update_bench_count(saved.s, hub_id_of(s, hub_name), edited[1],
                                  hub_name, ts))
       ELSE saved

\* "Save Initial Data" of the form shown while there is no Staffing row
\* (lines 3518-3564), one transaction
init_staffing_data(s, hub_name, bench_count, clock) ==
    LET inserted == insert_people_metric(s, hub_id_of(s, hub_name), "Bench Count",
                                         bench_count, "Staffing",
                                         current_month_year(clock), hub_name, clock)
    IN IF inserted.ok
       THEN Ok(update_bench_count(inserted.s, hub_id_of(s, hub_name), bench_count,
                                  hub_name, clock))
       ELSE inserted

\* "Add New Time Period" of the Staffing table
StaffingAdd ==
    /\ hist.edits < MaxEdits + 2
    /\ Len(staffing_table(Store, current_hub)) > 0
    /\ LET r == add_staffing_period(Store, current_hub, now)
       IN /\ r.s # Store
          /\ SetStore(r.s)
          /\ view' = [page |-> "staffing_add", ok |-> r.ok]
    /\ Edited("add_staffing_period")
    /\ UNCHANGED <<now, mig, runs, ed>>

\* "Save Staffing Data" with a bench count typed into every row
SaveStaffingData ==
    /\ hist.edits < MaxEdits + 2
    /\ LET table == staffing_table(Store, current_hub)
       IN /\ Len(table) > 0
          /\ \E edited \in [1..Len(table) -> HeadcountValues] :
               LET r == save_staffing_data(Store, current_hub, edited, now)
               IN /\ SetStore(r.s)
                  /\ view' = [page |-> "staffing", ok |-> r.ok, edited |-> edited]
    /\ Edited("save_staffing")
    /\ UNCHANGED <<now, mig, runs, ed>>

\* "Save Initial Data" while the hub has no Staffing row
InitStaffingData ==
    /\ hist.edits < MaxEdits + 2
    /\ Len(staffing_table(Store, current_hub)) = 0
    /\ \E bench_count \in HeadcountValues :
          LET r == init_staffing_data(Store, current_hub, bench_count, now)
          IN /\ SetStore(r.s)
             /\ view' = [page |-> "staffing", ok |-> r.ok, edited |-> <<bench_count>>]
    /\ Edited("init_staffing")
    /\ UNCHANGED <<now, mig, runs, ed>>

NextStaffing == Tick \/ StaffingAdd \/ SaveStaffingData \/ InitStaffingData

SpecStaffing == InitApp /\ [][NextStaffing]_vars

-----------------------------------------------------------------------------
(* update_hub_metrics statement by statement (lines 1036-1128): the SELECT *)
(* of the current percentages and the UPDATE are separate statements, and  *)
(* the saves of other sessions use connections of their own.               *)

\* lines 1042-1066: the gender fields the caller left out are filled into
\* metrics_data from the row as it is now, or with 0 when there is no row
read_current_metrics(s, metrics_data) ==
    LET found == \E r \in s.hub_metrics : r.id = metrics_data.id
        current_metrics == CHOOSE r \in s.hub_metrics : r.id = metrics_data.id
        fields == {"female_percent", "male_percent", "other_gender_percent"}
    IN [f \in DOMAIN metrics_data \cup fields |->
           IF f \in DOMAIN metrics_data THEN metrics_data[f]
           ELSE IF found THEN current_metrics[f] ELSE Pct(0, 1)]

\* the hub metrics form was submitted: update_hub_metrics has run its SELECT
HubMetricsRead(e) ==
    /\ ed[e].pc = "idle"
    /\ \E row \in get_hub_metrics(Store, current_hub), total_seats \in SeatValues :
          ed' = [ed EXCEPT ![e] =
                   [pc |-> "hub_update",
                    metrics_data |->
                       read_current_metrics(Store,
                          submitted_metrics_data(Store, current_hub, row, total_seats, 0, {}))]]
    /\ hist' = [hist EXCEPT !.op = "hub_metrics_read"]
    /\ UNCHANGED <<store_vars, now, mig, runs, view>>

\* update_hub_metrics runs its UPDATE; before is the row the UPDATE found
HubMetricsWrite(e) ==
    /\ ed[e].pc = "hub_update"
    /\ LET r == update_hub_metrics(Store, ed[e].metrics_data, now)
       IN /\ SetStore(r.s)
          /\ view' = [page |-> "hub_metrics_write", ok |-> r.ok,
                      before |-> CHOOSE row \in hub_metrics : row.id = ed[e].metrics_data.id]
    /\ ed' = [ed EXCEPT ![e] = [pc |-> "idle"]]
    /\ hist' = [hist EXCEPT !.op = "hub_metrics_write"]
    /\ UNCHANGED <<now, mig, runs>>

\* one session submits the hub metrics form while another edits the People tabs
NextRace ==
    \/ InitStaffingData \/ SaveStaffingData
    \/ \E e \in {1} : HubMetricsRead(e) \/ HubMetricsWrite(e)
    \/ \E e \in {2} : InitGenderData(e) \/ SaveGenderData(e)

SpecRace == InitApp /\ [][NextRace]_vars

-----------------------------------------------------------------------------
(* The location rows of the hub metrics form on their own.                 *)

\* the user empties the text field of one location row and the page runs
ClearLocation(e) ==
    /\ ed[e].pc = "form"
    /\ \E i \in 1..Len(ed[e].locations) :
          LET shown == shown_widgets(ed[e].locations, ed[e].location_headcounts)
              r == location_loop(ed[e].locations, ed[e].location_headcounts,
                                 [shown EXCEPT ![i] = <<"", shown[i][2]>>], 1)
          IN /\ ed[e].locations[i] # ""
             /\ ed' = [ed EXCEPT ![e].locations = r.locations,
                                 ![e].location_headcounts = r.location_headcounts]
    /\ hist' = [hist EXCEPT !.op = "rerun"]
    /\ UNCHANGED <<store_vars, now, mig, runs, view>>

NextLocations ==
    \E e \in {1} :
       \/ OpenHubMetricsForm(e) \/ NewSession(e)
       \/ AddLocation(e) \/ EditLocation(e) \/ ClearLocation(e) \/ RemoveLocation(e)
       \/ SubmitHubMetricsForm(e)

SpecLocations == InitApp /\ [][NextLocations]_vars

-----------------------------------------------------------------------------
(* Edits of the other cells of the client table.                           *)

\* "Save Client Changes" after one cell of one row of the table was edited:
\* the employee count, the status or the duration
SaveClientCells(e) ==
    /\ hist.edits < MaxEdits
    /\ LET filtered_df == get_client_metrics(Store, current_hub)
       IN \E row \in filtered_df :
          \E edited_row \in
                {[display_row(row) EXCEPT !.employee_count = v] : v \in HeadcountValues}
                  \cup {[display_row(row) EXCEPT !.engagement_status = v]
                           : v \in {"Active", "Inactive"}}
                  \cup {[display_row(row) EXCEPT !.relationship_duration = v] : v \in {2}} :
             LET edited == {IF r.id = row.id THEN edited_row ELSE display_row(r)
                            : r \in filtered_df}
                 r == save_client_changes(Store, filtered_df, edited, current_hub, now)
             IN /\ edited_row # display_row(row)
                /\ SetStore(r.s)
                /\ view' = [page |-> "clients", op |-> "save_cells", id |-> row.id,
                            loaded |-> display_row(row), edited |-> edited_row,
                            ok |-> r.errors = 0]
    /\ Edited("save_client_cells")
    /\ UNCHANGED <<now, mig, runs, ed>>

NextClientEdits == Tick \/ \E e \in Editors : AddClient(e) \/ SaveClientCells(e)

SpecClientEdits == InitApp /\ [][NextClientEdits]_vars

-----------------------------------------------------------------------------
(* Properties of the column migration.                                     *)

\* C1: a second run of setup_database in succession adds no column: the
\* column set of every table after the second run is the one after the first.
C1_SecondRunAddsNoColumn ==
    \A i \in 1..Len(runs) : i > 1 => runs[i].columns = runs[i - 1].columns

\* an older store lacking columns has been migrated by a first run and then
\* run a second time
C1_Witness ==
    /\ Len(runs) >= 2
    /\ hist.start_columns # runs[1].columns
    /\ \E t \in TableNames : hist.start_columns[t] # {} /\ hist.start_columns[t] # runs[1].columns[t]

\* C2: a failed column add never aborts setup_database (the failure is
\* swallowed and the remaining columns are still attempted)
C2_FailedAddNeverAborts ==
    \A p \in Migrators : mig[p].abort # "alter"

\* C3: seeding is at most once: a run of setup_database on a store that
\* already has hubs and users inserts no row and changes no row of any table,
\* also after editors changed or removed seeded rows.
C3_SeedAtMostOnce ==
    [][(hist'.op = "setup" /\ Len(runs') = Len(runs) + 1 /\ hubs # {} /\ users # {})
        => UNCHANGED <<hubs, users, hub_metrics, hub_capabilities, client_metrics,
                       people_metrics>>]_vars

\* the program started twice on a new database; between the two starts an
\* editor removed seeded clients of a hub
C3_Witness ==
    /\ Len(runs) = 2 /\ hist.op = "setup"
    /\ hist.start_columns = EmptyStore.columns
    /\ hist.edited_after = 1
    /\ \E h \in hubs : \A c \in client_metrics : c.hub_id # h.id

\* C4: for a parsable timestamp, is_outdated is true exactly when more than
\* 30 days have elapsed, and the colouring leaves the fresh tier exactly
\* where is_outdated becomes true: fresh if and only if not outdated.
C4_TiersAgreeWithOutdated ==
    (view.page = "age" /\ view.timestamp.kind = "ok") =>
        /\ view.outdated <=> (view.clock - view.timestamp.hour) \div 24 > 30
        /\ (view.colour = "#99FF99") <=> ~view.outdated

-----------------------------------------------------------------------------
(* Properties of the pages and the repository functions.                    *)

\* C5: after "Update Hub Metrics", the stored total_headcount of the hub is
\* the sum of the Permanent Employees and Contract Employees values of the
\* chronologically latest Employment Type period, the seeded year "2025"
\* coming before every month of 2026 and 2027, and 0 without such rows.
C5_TotalIsLatestPeriodSum ==
    (hist.op = "submit_hub_metrics" /\ view.page = "hub_metrics" /\ view.ok) =>
        LET hub_id == hub_id_of(Store, current_hub)
            rows == {p \in people_metrics : /\ p.hub_id = hub_id
                                            /\ p.metric_category = "Employment Type"}
            month(period) == IF to_datetime(period) = NaT THEN 0 ELSE to_datetime(period)
            latest == {p \in rows : \A q \in rows : month(q.time_period) <= month(p.time_period)}
            values(name) == IF \E p \in latest : p.metric_name = name
                            THEN {p.metric_value : p \in {q \in latest : q.metric_name = name}}
                            ELSE {0}
        IN \A r \in hub_metrics :
              r.hub_id = hub_id =>
                 IF rows = {} THEN r.total_headcount = 0
                 ELSE \E a \in values("Permanent Employees"), b \in values("Contract Employees") :
                         r.total_headcount = a + b

\* C6: after gender counts 0, 0, 0 for the latest period were saved, with
\* "Save Gender Data" or the initial-data form, no error was reported and
\* the three gender percentages of the hub are 0.
C6_ZeroCountsGiveZeroPercent ==
    (hist.op \in {"save_gender", "init_gender"} /\ view.page = "gender"
        /\ view.latest = <<0, 0, 0>>) =>
        /\ view.ok
        /\ \A r \in hub_metrics :
              r.hub_id = hub_id_of(Store, current_hub) =>
                 /\ r.female_percent = Pct(0, 1)
                 /\ r.male_percent = Pct(0, 1)
                 /\ r.other_gender_percent = Pct(0, 1)

\* C7: no two hub_capabilities rows ever share (hub_id, capability_name),
\* and an "Add Capability" that ends while a row of the hub has the name
\* shows an error and leaves the table as it was.
C7_DuplicateCapabilityRejected ==
    /\ [](\A p, q \in hub_capabilities :
             (p.hub_id = q.hub_id /\ p.capability_name = q.capability_name) => p.id = q.id)
    /\ [][\A e \in Editors :
             (/\ ed[e].pc = "cap_insert" /\ ed'[e].pc = "idle"
              /\ \E r \in hub_capabilities : /\ r.hub_id = hub_id_of(Store, current_hub)
                                             /\ r.capability_name = ed[e].name)
             => /\ hub_capabilities' = hub_capabilities
                /\ view'.message \in {"already exists", "error adding capability"}]_vars

\* two editors added the same new name at the same time: the INSERT of the
\* second one was refused by the UNIQUE constraint
C7_Witness ==
    /\ view.page = "capabilities" /\ view.message = "error adding capability"
    /\ hist.op = "add_capability_done"
    /\ Cardinality({r \in hub_capabilities : /\ r.hub_id = hub_id_of(Store, current_hub)
                                             /\ r.capability_name = view.name}) = 1

C9_PeopleKeyUnique ==
    \A p, q \in people_metrics :
        (/\ p.hub_id = q.hub_id /\ p.metric_name = q.metric_name
         /\ p.time_period = q.time_period /\ p.hiring_reason = q.hiring_reason)
        => p.id = q.id

\* C10: a successful call of a repository function leaves the row with
\* updated_at at the time of the call, updated_by as passed and the
\* fine-grained timestamp at the time of the call; for hub_metrics each of
\* the three fine-grained timestamps is at the time of the call if a field of
\* its group changed and as before otherwise.
C10_MutationStampsRow ==
    [][(hist'.edits = hist.edits + 1 /\ view'.page = "repo" /\ view'.ok) =>
         /\ view'.op = "update_hub_capability" =>
              \A r \in hub_capabilities' :
                 r.id = view'.id => /\ r.updated_at = now /\ r.updated_by = view'.updated_by
                                    /\ r.capability_updated_at = now
         /\ view'.op \in {"update_client_metric", "add_client_metric"} =>
              \A r \in client_metrics' :
                 r.id = view'.id => /\ r.updated_at = now /\ r.updated_by = view'.updated_by
                                    /\ r.client_updated_at = now
         /\ view'.op = "update_people_metric" =>
              \A r \in people_metrics' :
                 r.id = view'.id => /\ r.updated_at = now /\ r.updated_by = view'.updated_by
                                    /\ r.people_metric_updated_at = now
         /\ view'.op = "update_hub_metrics" =>
              \A o \in hub_metrics, r \in hub_metrics' :
                 (o.id = view'.id /\ r.id = view'.id) =>
                    LET location_data == {"location", "location_headcounts"}
                        certification_data == {"certifications"}
                        core_numbers == (core_fields \cup {"bench_count"}) \ location_data
                        changed(group) == \E f \in group : r[f] # o[f]
                        stamp(group, f) == r[f] = IF changed(group) THEN now ELSE o[f]
                    IN /\ r.updated_at = now /\ r.updated_by = view'.updated_by
                       /\ stamp(core_numbers, "metrics_updated_at")
                       /\ stamp(location_data, "location_updated_at")
                       /\ stamp(certification_data, "certifications_updated_at")]_vars

-----------------------------------------------------------------------------
(* Properties of what the pages display.                                   *)

\* C11: whenever the dashboard or the hub metrics page displays a hub's total
\* headcount, total clients and services offered, each displayed value is the
\* one recomputed from the hub's current people_metrics, client_metrics and
\* hub_capabilities rows (checked in the state the page was rendered in).
C11_DisplayedTotalsAreRecomputed ==
    hist.op \in {"show_dashboard", "show_hub_metrics"} =>
       /\ view.total_headcount = total_headcount_calculated(Store, current_hub).total
       /\ view.total_clients = Cardinality(get_client_metrics(Store, current_hub))
       /\ view.services_offered = Cardinality(get_hub_capabilities(Store, current_hub))

-----------------------------------------------------------------------------
(* Properties of the timestamp backfill.                                   *)

\* C12: after setup_database has completed on a store that already had rows,
\* no row of hub_metrics, hub_capabilities, client_metrics or people_metrics
\* has a null fine-grained timestamp, and this stays so after every add and
\* update of the application.
C12_NoNullTimestamp ==
    \A i \in 1..Len(tables_to_update) :
       \A r \in Store[tables_to_update[i][1]], c \in tables_to_update[i][2] : r[c] # NULL

\* rows that the earlier version left without a fine-grained timestamp were
\* backfilled by the start, and a row was added and one updated afterwards
C12_Witness ==
    /\ \E r \in client_metrics : r.updated_at = 0 /\ r.client_updated_at = 1
    /\ \E r \in hub_metrics : r.updated_at = 0 /\ r.metrics_updated_at = 1
    /\ \E r \in client_metrics : r.client_name = "Acme"
    /\ \E r \in hub_capabilities : r.updated_by = current_hub

-----------------------------------------------------------------------------
(* Properties of the credentials.                                          *)

\* C13: in every state of the users table a credential's hub_name is "ALL"
\* exactly if the credential is an administrator, and every credential that
\* is not an administrator is bound to the name of an existing hub.
C13_AllIffAdministrator ==
    \A u \in users :
       /\ u.hub_name = "ALL" <=> u.is_admin = 1
       /\ u.is_admin # 1 => \E h \in hubs : h.hub_name = u.hub_name

-----------------------------------------------------------------------------
(* Properties of the hub metrics form.                                     *)

C19_StoredKeysAreTrimmed ==
    (view.page = "hub_metrics_form" /\ view.ok) =>
       \A r \in get_hub_metrics(Store, current_hub) :
       \A p \in r.location_headcounts.items \cup r.certifications.items :
          /\ p[1] # "" /\ strip(p[1]) = p[1]
          /\ p[2] \in Nat

-----------------------------------------------------------------------------
(* Properties of the rendered age.                                          *)

\* C16: get_time_difference gives "Never" for an absent timestamp and, for a
\* parsable timestamp with d elapsed whole days: the minutes if d = 0 and
\* less than an hour has passed, the hours if d = 0 otherwise, "Yesterday" if
\* d = 1, d days if 2 <= d <= 29, d div 30 months if 30 <= d <= 364 and
\* d div 365 years if d >= 365.
C16_AgeText ==
    view.page = "age" =>
       /\ view.timestamp.kind = "nan" => view.text = <<0, "Never">>
       /\ view.timestamp.kind = "ok" =>
             LET elapsed == (view.clock - view.timestamp.hour) * 60 + view.minute
                 d == elapsed \div 1440
             IN /\ (d = 0 /\ elapsed < 60) => view.text = <<elapsed, "minutes ago">>
                /\ (d = 0 /\ elapsed >= 60) => view.text = <<elapsed \div 60, "hours ago">>
                /\ d = 1 => view.text = <<1, "Yesterday">>
                /\ (2 <= d /\ d <= 29) => view.text = <<d, "days ago">>
                /\ (30 <= d /\ d <= 364) => view.text = <<d \div 30, "months ago">>
                /\ d >= 365 => view.text = <<d \div 365, "years ago">>

\* a timestamp two years old has been rendered, 59 minutes past the hour
C16_Witness ==
    /\ view.page = "age" /\ view.timestamp.kind = "ok" /\ view.minute = 59
    /\ view.text = <<2, "years ago">>

\* C20: the colouring maps a parsable timestamp with d elapsed whole days to
\* fresh (green) if d < 30, to warning (yellow) if 30 <= d <= 35 and to stale
\* (red) if d > 35; a timestamp exactly 35 days old is coloured warning.
C20_ThreeTiers ==
    (view.page = "age" /\ view.timestamp.kind = "ok") =>
       LET d == ((view.clock - view.timestamp.hour) * 60 + view.minute) \div 1440
       IN view.colour = IF d < 30 THEN "#99FF99"
                        ELSE IF d <= 35 THEN "#FFFF99"
                        ELSE "#FF9999"

\* C17: after a successful gender save whose latest period has the saved
\* counts f, m, o with f + m + o > 0, the hub's stored female, male and other
\* percentages are 100 f / (f + m + o), 100 m / (f + m + o) and
\* 100 o / (f + m + o), computed from the counts as saved.
C17_PercentagesFromSavedCounts ==
    (/\ hist.op \in {"save_gender", "init_gender"} /\ view.page = "gender" /\ view.ok
     /\ view.latest[1] + view.latest[2] + view.latest[3] > 0) =>
        LET total == view.latest[1] + view.latest[2] + view.latest[3]
        IN \A r \in hub_metrics :
              r.hub_id = hub_id_of(Store, current_hub) =>
                 /\ r.female_percent = percent_of(view.latest[1], total)
                 /\ r.male_percent = percent_of(view.latest[2], total)
                 /\ r.other_gender_percent = percent_of(view.latest[3], total)

\* C18: the timestamp backfill of setup_database changes only fine-grained
\* timestamps that are null: a value that is not null before the run is the
\* same after the run, also in a hub_metrics row in which only one or two of
\* the three timestamps are null.
C18_BackfillKeepsNonNull ==
    [][hist'.op = "setup" =>
         \A i \in 1..Len(tables_to_update) :
            LET t == tables_to_update[i][1] IN
            \A o \in Store[t], r \in Store'[t], c \in tables_to_update[i][2] :
               (o.id = r.id /\ o[c] # NULL) => r[c] = o[c]]_vars

-----------------------------------------------------------------------------
(* Properties of the stored time periods.                                  *)

\* C21: in every reachable state of the store, every people_metrics row of
\* category Marital Status or Tenure has a time_period that is a four-digit
\* year, and every row of category Employment Type, Turnover, Gender or
\* Staffing has a time_period of the form "Mon YYYY" (one that strptime
\* parses with "%b %Y").
C21_TimePeriodFormats ==
    LET years == {"2025", "2026", "2027"}
    IN \A r \in people_metrics :
          /\ r.metric_category \in {"Marital Status", "Tenure"} =>
                r.time_period \in years
          /\ r.metric_category \in {"Employment Type", "Turnover", "Gender", "Staffing"} =>
                to_datetime(r.time_period) # NaT

-----------------------------------------------------------------------------
(* Properties of the client rows.                                          *)

\* C22: in every reachable state, every client_metrics row created or edited
\* through the application (seeded sample clients, Add Client, the update of
\* a client, Save Client Changes) has a capability-name list with at least
\* one element.
C22_ClientHasCapabilityName ==
    \A r \in client_metrics :
       /\ r.capability_name # JsonNull
       /\ Len(r.capability_name.items) >= 1

-----------------------------------------------------------------------------
(* Properties of the dashboard's staleness warnings.                       *)

-----------------------------------------------------------------------------
(* Properties of the session and the views it is shown.                    *)

\* C24: a view that looks up a hub name not present in the hubs table (the
\* capabilities or people view of a session whose credential is bound to
\* "ALL" or to a missing hub) reports an error, performs no write and does
\* not terminate with an unhandled exception.
C24_MissingHubReportsError ==
    [][(/\ hist'.op = "render"
        /\ view'.rendered \in {"capabilities", "people_analytics"}
        /\ hub_id_of(Store, view'.current_hub) = NULL)
         => (view'.outcome = "error" /\ UNCHANGED store_vars)]_vars

-----------------------------------------------------------------------------
(* Properties of the hub metrics submit.                                   *)

\* C25: immediately after a successful hub-metrics submit by a hub user, the
\* stored total_clients of that hub equals the number of client_metrics rows
\* of that hub and the stored services_offered equals the number of
\* hub_capabilities rows of that hub, as they were when the form was
\* rendered (the script run that handles the submit counts them and the
\* submit changes neither table).
C25_SubmitStoresCounts ==
    (hist.op = "submit_hub_metrics" /\ view.page = "hub_metrics" /\ view.ok) =>
       \A row \in get_hub_metrics(Store, current_hub) :
          /\ row.total_clients = Cardinality(get_client_metrics(Store, current_hub))
          /\ row.services_offered = Cardinality(get_hub_capabilities(Store, current_hub))

\* a submit has stored counts that differ from the seeded 12 and 8: a client
\* was added or removed, or a capability deleted, before it
C25_Witness ==
    /\ hist.op = "submit_hub_metrics" /\ view.page = "hub_metrics" /\ view.ok
    /\ \E row \in get_hub_metrics(Store, current_hub) :
          /\ row.total_clients # 12
          /\ row.total_clients # NumSampleClients
          /\ row.total_clients = Cardinality(get_client_metrics(Store, current_hub))
          /\ row.services_offered # 8

-----------------------------------------------------------------------------
(* Properties of the Staffing save.                                        *)

\* C26: after a successful Staffing save (Save Staffing Data or the
\* initial-data form), the hub's stored hub_metrics.bench_count equals the
\* saved "Bench Count" value of the chronologically latest Staffing time
\* period of that hub.
C26_BenchCountIsLatest ==
    (hist.op \in {"save_staffing", "init_staffing"} /\ view.ok) =>
       LET staffing == {p \in people_metrics :
                           /\ p.hub_id = hub_id_of(Store, current_hub)
                           /\ p.metric_category = "Staffing"
                           /\ p.metric_name = "Bench Count"}
           latest == {p \in staffing :
                         \A q \in staffing :
                            to_datetime(q.time_period) <= to_datetime(p.time_period)}
       IN \A row \in get_hub_metrics(Store, current_hub), p \in latest :
             row.bench_count = p.metric_value

\* a save of a table of at least two periods stored a bench count for the
\* latest period that differs from the one of the oldest period
C26_Witness ==
    /\ hist.op = "save_staffing" /\ view.ok
    /\ Len(view.edited) >= 2
    /\ view.edited[1] # view.edited[Len(view.edited)]
    /\ \A row \in get_hub_metrics(Store, current_hub) : row.bench_count = view.edited[1]

-----------------------------------------------------------------------------
(* Properties of update_hub_metrics next to the saves of other sessions.   *)

\* C27: update_hub_metrics called without gender fields and without
\* bench_count leaves the row's female_percent, male_percent,
\* other_gender_percent and bench_count equal to the values stored at the
\* moment of its write, also when a Gender or Staffing save of another
\* editor commits between its read of the current percentages and its
\* UPDATE.
C27_UpdateKeepsGenderAndBench ==
    (hist.op = "hub_metrics_write" /\ view.ok) =>
       \A row \in hub_metrics :
          row.id = view.before.id =>
             /\ row.female_percent = view.before.female_percent
             /\ row.male_percent = view.before.male_percent
             /\ row.other_gender_percent = view.before.other_gender_percent
             /\ row.bench_count = view.before.bench_count

-----------------------------------------------------------------------------
(* Properties of the stored locations.                                     *)

\* C28: after a successful hub-metrics submit, every key of the stored
\* location_headcounts map is one of the locations of the stored location
\* list (read as the page reads it: split at the commas and trimmed), for
\* any sequence of add, rename (also to the empty string) and remove
\* location actions that preceded the submit.
C28_HeadcountKeysAreLocations ==
    (hist.op = "submit_form" /\ view.ok) =>
       \A row \in get_hub_metrics(Store, current_hub) :
          LET locations == split_locations(row.location)
          IN \A k \in DOMAIN json_loads(row.location_headcounts) :
                \E i \in 1..Len(locations) : locations[i] = strip(k)

-----------------------------------------------------------------------------
(* Properties of the client table save.                                    *)

\* C29: Save Client Changes persists every edit made to an editable column
\* of a non-deleted client row: if client_name, engagement_status,
\* commercial_model, relationship_duration, employee_count or scope_summary
\* differs from the loaded value, the row is written with the edited values,
\* also when employee_count is the only column that changed.
C29_EditedCellsAreSaved ==
    (hist.op = "save_client_cells" /\ view.ok /\ view.edited # view.loaded) =>
       \A r \in client_metrics :
          r.id = view.id =>
             /\ r.client_name = view.edited.client_name
             /\ r.engagement_status = view.edited.engagement_status
             /\ r.commercial_model = view.edited.commercial_model
             /\ r.relationship_duration = view.edited.relationship_duration
             /\ r.employee_count = view.edited.employee_count

\* C30: in every reachable session state, the Admin Tools view is rendered
\* only while the session is logged in with is_admin true, the data-entry
\* views (hub metrics, capabilities, client relationships, people analytics)
\* only while logged in with is_admin false, and after logout_user
\* (logged_in false, current_hub None, is_admin false) only the login screen
\* is rendered until a login_user call succeeds.
C30_ViewsFollowSession ==
    [][/\ hist'.op = "render" =>
             /\ view'.rendered = "admin_tools" => (view'.logged_in /\ view'.is_admin)
             /\ view'.rendered \in {"hub_metrics", "capabilities", "client_relationships",
                                    "people_analytics"}
                   => (view'.logged_in /\ ~view'.is_admin)
             /\ ~view'.logged_in => view'.rendered = "login_screen"
       /\ hist'.op = "logout" =>
             (~view'.logged_in /\ view'.current_hub = NullText /\ ~view'.is_admin)
       /\ (~session_state.logged_in /\ session_state'.logged_in) =>
             (hist'.op = "login" /\ view'.ok)]_vars

\* the login screen is rendered for a session that has logged out of a
\* successful login
C30_Witness ==
    /\ hist.op = "render" /\ view.rendered = "login_screen"
    /\ view.username = "admin" /\ view.password = admin_password

====
